---- MODULE Spec2Model ----
(***************************************************************************)
(* Model of the contact discovery enclave service                          *)
(* (enclave/cds_enclave/src/service/main.rs): the batching server state    *)
(* machine (init / handle_call / terminate), the rate-limit state          *)
(* (RatelimitState::update over client-held ciphertexts) and the           *)
(* process-wide map of per-UUID cells.                                     *)
(***************************************************************************)
EXTENDS Integers, Sequences, FiniteSets, Bags, TLC

VARIABLES
    phase,                \* "ACCEPTING" until terminate consumes the server
    requests,             \* SgxsdServerState.requests : Vec<PendingRequest>
    query_phones,         \* SgxsdServerState.query_phones : PhoneList
    capacity,             \* query_phones.capacity(), fixed by init
    ratelimit_state_map,  \* SgxsdServerState.ratelimit_state_map is Some
    RATELIMIT_STATE_MAP,  \* the process-wide Once<Arc<RatelimitStateMap>>
    next_key,             \* number of AES-GCM keys drawn from RdRand so far
    revealed,             \* history, per key: the highest nonce of the
                          \* ciphertexts handed back to callers under it
    replies,              \* history: from.reply(..) calls made by terminate
    lookups,              \* history: hash_lookup invocations made by terminate
    submitted,            \* history: the phones each parked request submitted
    current,              \* history, per UUID: the slab its cell last returned,
                          \* while the cell's nonce and key are those it left
    stale,                \* history, per UUID: the slab its cell returned and
                          \* stood by last, and no longer stands by
    last,                 \* history: the last operation, its inputs and result
    pc,                   \* per thread: position inside its operation
    loc,                  \* per thread: the operation's local variables
    map_lock,             \* holder of hash_map's RwLock (0 = free)
    cell_lock,            \* per UUID: holder of the cell's Mutex (0 = free)
    hashing,              \* the locals of a hash_query_phone call run
                          \* one SHA-1 evaluation at a time
    overflow_checks,      \* the build panics on integer overflow (a debug
                          \* profile) instead of wrapping (a release one)
    outcomes              \* history: the ciphertext and the status of every
                          \* update that presented a ciphertext and returned
                          \* (kept where it is read)

vars == <<phase, requests, query_phones, capacity, ratelimit_state_map,
          RATELIMIT_STATE_MAP, next_key, revealed, replies, lookups,
          submitted, current, stale, last, pc, loc, map_lock, cell_lock,
          hashing, overflow_checks, outcomes>>

serverVars == <<phase, requests, query_phones, capacity, ratelimit_state_map>>
threadVars == <<pc, loc, map_lock, cell_lock>>

----------------------------------------------------------------------------
(* Bounds of the model. *)

MaxNonce == 3         \* no update is started on a cell whose nonce is MaxNonce
MaxKeys == 2          \* no key is drawn once MaxKeys keys were drawn
MaxCapacity == 4      \* largest max_query_phones given to init
MaxRand == 1          \* RdRand draws for the size limit range over 0..MaxRand
MaxThreads == 2       \* threads of the interleaved specification

(* Program constants. *)

BYTES_PER_PHONE == 8
BYTES_PER_UUID == 16
COMMITMENT_NONCE_SIZE == 32
AES_GCM_KEY_LEN == 32
AES_GCM_MAC_LEN == 16
SIZE_LIMIT_DATA_LEN == 4
\* MAX_HASH_TABLE_SIZE of crate::ffi::hash_lookup, scaled down so that a
\* batch of MaxCapacity phones is looked up in several chunks.
MAX_HASH_TABLE_SIZE == 2
\* usize::MAX and u32::MAX, both scaled to the largest integer TLC holds;
\* checked_mul and checked_add fail exactly when the product or sum passes it.
USIZE_MAX == 2147483647
U32_MAX == 2147483647

SGX_SUCCESS == "SGX_SUCCESS"
SGX_ERROR_UNEXPECTED == "SGX_ERROR_UNEXPECTED"
SGX_ERROR_INVALID_PARAMETER == "SGX_ERROR_INVALID_PARAMETER"
SGX_ERROR_INVALID_STATE == "SGX_ERROR_INVALID_STATE"
SGX_ERROR_MAC_MISMATCH == "SGX_ERROR_MAC_MISMATCH"
CDS_ERROR_INVALID_REQUEST_SIZE == "CDS_ERROR_INVALID_REQUEST_SIZE"
CDS_ERROR_QUERY_COMMITMENT_MISMATCH == "CDS_ERROR_QUERY_COMMITMENT_MISMATCH"
CDS_ERROR_INVALID_RATE_LIMIT_STATE == "CDS_ERROR_INVALID_RATE_LIMIT_STATE"
CDS_ERROR_RATE_LIMIT_EXCEEDED == "CDS_ERROR_RATE_LIMIT_EXCEEDED"
\* the call does not return: "attempt to subtract with overflow"
PANIC == "PANIC"
\* hash_lookup and from.reply fail with a status of their own
HASH_LOOKUP_ERROR == "HASH_LOOKUP_ERROR"
REPLY_ERROR == "REPLY_ERROR"

----------------------------------------------------------------------------
(* Helpers on sequences and integers. *)

Min(a, b) == IF a < b THEN a ELSE b

RECURSIVE SumCounts(_)
SumCounts(reqs) ==
    IF reqs = <<>> THEN 0
    ELSE Head(reqs).request_phone_count + SumCounts(Tail(reqs))

Range(s) == {s[i] : i \in 1..Len(s)}

\* the product modulo usize::MAX + 1 (for the powers of two b that divide it)
wrapping_mul(a, b) ==
    IF b # 0 /\ a > USIZE_MAX \div b
    THEN (a - (USIZE_MAX \div b) - 1) * b
    ELSE a * b

\* usize::checked_mul : None is modelled as -1
checked_mul(a, b) == IF b # 0 /\ a > USIZE_MAX \div b THEN -1 ELSE a * b

\* usize::checked_sub : None is modelled as -1
checked_sub(a, b) == IF a < b THEN -1 ELSE a - b

----------------------------------------------------------------------------
(* AES-GCM, SHA-1 and the rate-limit set: library code, modelled by its     *)
(* contract.  A ciphertext is the term [key, iv, pt] of its encryption;     *)
(* any other non-zero buffer ("junk": forged, truncated, or with a MAC      *)
(* that does not belong to it) authenticates under no key.                  *)

NoPt == [size_limit |-> 0, slots |-> {}]
ZeroIv == [i \in 1..12 |-> 0]
ZeroCt == [kind |-> "zero", key |-> 0, iv |-> ZeroIv, pt |-> NoPt]
JunkCt == [kind |-> "junk", key |-> 0, iv |-> ZeroIv, pt |-> NoPt]

AesGcmEncrypt(key, iv, pt) == [kind |-> "enc", key |-> key, iv |-> iv, pt |-> pt]

\* decrypt in place: Ok(plaintext) iff the MAC verifies under (key, iv)
AesGcmDecrypt(key, iv, ct) ==
    IF ct.kind = "enc" /\ ct.key = key /\ ct.iv = iv
    THEN [ok |-> TRUE, pt |-> ct.pt]
    ELSE [ok |-> FALSE, pt |-> NoPt]

\* ratelimit_set_add / ratelimit_set_size (crate::ffi::ratelimit_set)
ratelimit_set_add(slots, phones) == slots \cup Range(phones)
ratelimit_set_size(slots) == Cardinality(slots)

\* first 8 bytes of SHA1("+" || data), as a code of the digit string: the
\* strings of up to seven digits after their leading zeros have a code of
\* their own each (their value and length); the longer ones share the
\* negative codes
RECURSIVE DigitsValue(_)
DigitsValue(data) ==
    IF data = <<>> THEN 0
    ELSE 10 * DigitsValue(SubSeq(data, 1, Len(data) - 1)) + data[Len(data)]

RECURSIVE DigitsFold(_)
DigitsFold(data) ==
    IF data = <<>> THEN 1
    ELSE (11 * DigitsFold(SubSeq(data, 1, Len(data) - 1)) + data[Len(data)] + 1)
             % 999983

SHA1_prefix(data) ==
    IF \A i \in 1..(Len(data) - 7) : data[i] = 0
    THEN 32 * DigitsValue(data) + Len(data)
    ELSE 0 - DigitsFold(data)

----------------------------------------------------------------------------
(* hash_query_phone *)

\* the divrem loop of hash_query_phone: n decimal digits of quotient,
\* most significant first
RECURSIVE ascii_digits(_, _)
ascii_digits(quotient, n) ==
    IF n = 0 THEN <<>>
    ELSE Append(ascii_digits(quotient \div 10, n - 1), quotient % 10)

hash_truncated(data, phone, choice) ==
    IF choice THEN SHA1_prefix(data) ELSE phone

RECURSIVE hash_ascii_phone(_, _, _)
hash_ascii_phone(phone, ascii_phone, leading_zeroes) ==
    IF ascii_phone = <<>> THEN phone
    ELSE LET leading_zero == (ascii_phone[1] = 0)
         IN  hash_ascii_phone(
                 hash_truncated(ascii_phone, phone, leading_zeroes /\ ~leading_zero),
                 Tail(ascii_phone),
                 leading_zeroes /\ leading_zero)

hash_query_phone(phone) ==
    hash_ascii_phone(phone, ascii_digits(phone, 20), TRUE)

\* a u64 beyond the model's integers: three limbs <<a, b, c>> of nine decimal
\* digits each, standing for a * Limb^2 + b * Limb + c
Limb == 1000000000
U64_MAX == <<18, 446744073, 709551615>>

\* quotient.divrem_assign(&divisor, &mut remainder) with divisor 10
divrem_assign_without_carry(quotient) ==
    [quotient  |-> <<quotient[1] \div 10, quotient[2] \div 10,
                     quotient[3] \div 10>>,
     remainder |-> quotient[3] % 10]

divrem_assign(quotient) ==
    [quotient  |-> <<quotient[1] \div 10,
                     (quotient[1] % 10) * (Limb \div 10) + quotient[2] \div 10,
                     (quotient[2] % 10) * (Limb \div 10) + quotient[3] \div 10>>,
     remainder |-> quotient[3] % 10]

\* the divrem loop of hash_query_phone over a u64 of three limbs
RECURSIVE ascii_phone_of(_, _)
ascii_phone_of(quotient, n) ==
    IF n = 0 THEN <<>>
    ELSE LET d == divrem_assign(quotient)
         IN  Append(ascii_phone_of(d.quotient, n - 1), d.remainder)

\* no hash_query_phone call under way
NoHashing ==
    [pc |-> "idle", input |-> <<>>, phone |-> <<>>, ascii_phone |-> <<>>,
     leading_zeroes |-> TRUE, evaluations |-> <<>>]

----------------------------------------------------------------------------
(* RatelimitStateData: the plaintext [size_limit | slots] of data_len bytes *)

\* CtU64::rem_assign (library code): the remainder; the contract says
\* nothing of a zero divisor, where the result is any value: the dividend,
\* itself an arbitrary draw, stands for it
rem_assign(dividend, divisor) ==
    IF divisor = 0 THEN dividend ELSE dividend % divisor

\* rand < 0 models a failed RdRand draw
set_size_limit(pt, data_len, lower_limit_inclusive, range, rand) ==
    IF rand < 0 THEN [status |-> SGX_ERROR_UNEXPECTED, pt |-> pt]
    ELSE IF data_len < SIZE_LIMIT_DATA_LEN
    THEN [status |-> CDS_ERROR_INVALID_RATE_LIMIT_STATE, pt |-> pt]
    ELSE [status |-> SGX_SUCCESS,
          pt |-> [pt EXCEPT !.size_limit =
                     Min(rem_assign(rand, range) + lower_limit_inclusive,
                         U32_MAX)]]

\* slot_count without the quarter of dummy slots
slot_count_without_dummy_slots(data_len) ==
    LET slots_data_len == data_len - SIZE_LIMIT_DATA_LEN
        slot_count_raw == slots_data_len \div 8
    IN  slot_count_raw

\* below four bytes the subtraction wraps around usize (where the build
\* does not panic on it): (2^64 - 4 + len) / 8 * 3 / 4 = 3 * 2^59 - 1, which
\* `as u32` cuts down to u32::MAX
slot_count(data_len) ==
    IF data_len < SIZE_LIMIT_DATA_LEN THEN U32_MAX
    ELSE LET slots_data_len == data_len - SIZE_LIMIT_DATA_LEN
             slot_count_raw == slots_data_len \div 8
         IN  (slot_count_raw * 3) \div 4

\* add writing the phones of the call over the entries the set held
RatelimitStateData_add_over_entries(pt, data_len, phones) ==
    IF data_len < SIZE_LIMIT_DATA_LEN
    THEN [status |-> CDS_ERROR_INVALID_RATE_LIMIT_STATE, pt |-> pt]
    ELSE LET slots == ratelimit_set_add({}, phones)
         IN  IF ratelimit_set_size(slots) < pt.size_limit
             THEN [status |-> SGX_SUCCESS, pt |-> [pt EXCEPT !.slots = slots]]
             ELSE [status |-> CDS_ERROR_RATE_LIMIT_EXCEEDED, pt |-> pt]

\* add accepting a set that has reached the size limit
RatelimitStateData_add_up_to_limit(pt, data_len, phones) ==
    IF data_len < SIZE_LIMIT_DATA_LEN
    THEN [status |-> CDS_ERROR_INVALID_RATE_LIMIT_STATE, pt |-> pt]
    ELSE LET slots == ratelimit_set_add(pt.slots, phones)
         IN  IF ratelimit_set_size(slots) <= pt.size_limit
             THEN [status |-> SGX_SUCCESS, pt |-> [pt EXCEPT !.slots = slots]]
             ELSE [status |-> CDS_ERROR_RATE_LIMIT_EXCEEDED, pt |-> pt]

RatelimitStateData_add(pt, data_len, phones) ==
    IF data_len < SIZE_LIMIT_DATA_LEN
    THEN [status |-> CDS_ERROR_INVALID_RATE_LIMIT_STATE, pt |-> pt]
    ELSE LET slots == ratelimit_set_add(pt.slots, phones)
         IN  IF ratelimit_set_size(slots) < pt.size_limit
             THEN [status |-> SGX_SUCCESS, pt |-> [pt EXCEPT !.slots = slots]]
             ELSE [status |-> CDS_ERROR_RATE_LIMIT_EXCEEDED, pt |-> pt]

----------------------------------------------------------------------------
(* RatelimitState: [nonce, key] *)

\* an IV that does not hold the nonce
get_iv_without_nonce(nonce) == [i \in 1..12 |-> 0]

\* the 12-byte IV: nonce.to_le_bytes() followed by zeros
get_iv(nonce) ==
    [i \in 1..12 |-> IF i <= 4 THEN (nonce \div (256 ^ (i - 1))) % 256 ELSE 0]

\* the IV's first four bytes read back as an unsigned little-endian u32
IvNonce(iv) == iv[1] + 256 * iv[2] + 65536 * iv[3] + 16777216 * iv[4]

all_zero(ct) == ct.kind = "zero"

\* the failure of decrypt passed on as it is, without map_err
update_open_passing_mac_mismatch(self, data_len, ct, rand) ==
    IF ~all_zero(ct)
    THEN LET dec == AesGcmDecrypt(self.key, get_iv(self.nonce), ct)
         IN  IF dec.ok THEN [status |-> SGX_SUCCESS, pt |-> dec.pt]
             ELSE [status |-> SGX_ERROR_MAC_MISMATCH, pt |-> NoPt]
    ELSE IF overflow_checks /\ data_len < SIZE_LIMIT_DATA_LEN
    THEN [status |-> PANIC, pt |-> NoPt]
    ELSE LET ratelimit_state_slot_count == slot_count(data_len)
         IN  set_size_limit(NoPt, data_len, ratelimit_state_slot_count \div 2,
                            ratelimit_state_slot_count \div 2, rand)

\* lines 432-443: decrypt under the current nonce, or initialise a fresh state
update_open(self, data_len, ct, rand) ==
    IF ~all_zero(ct)
    THEN LET dec == AesGcmDecrypt(self.key, get_iv(self.nonce), ct)
         IN  IF dec.ok THEN [status |-> SGX_SUCCESS, pt |-> dec.pt]
             ELSE [status |-> CDS_ERROR_INVALID_RATE_LIMIT_STATE, pt |-> NoPt]
    ELSE IF overflow_checks /\ data_len < SIZE_LIMIT_DATA_LEN
    THEN [status |-> PANIC, pt |-> NoPt]
    ELSE LET ratelimit_state_slot_count == slot_count(data_len)
         IN  set_size_limit(NoPt, data_len, ratelimit_state_slot_count \div 2,
                            ratelimit_state_slot_count \div 2, rand)

\* the increment wrapping around to the first nonce
encrypt_nonce_wrapping(nonce) == IF nonce >= U32_MAX THEN 1 ELSE nonce + 1

\* the nonce left as it is
encrypt_nonce_unchanged(nonce) == IF nonce >= U32_MAX THEN 0 ELSE nonce

\* line 446: self.nonce.checked_add(1); None is modelled as 0
encrypt_nonce(nonce) == IF nonce >= U32_MAX THEN 0 ELSE nonce + 1

\* RatelimitState::update : the state after the call, the status, and the
\* ciphertext returned on success
NoOut == JunkCt

\* update taking the nonce back when add fails
update_restoring_nonce(self, data_len, ct, phones, rand) ==
    LET opened == update_open(self, data_len, ct, rand)
    IN  IF opened.status # SGX_SUCCESS
        THEN [status |-> opened.status, self |-> self, out |-> NoOut]
        ELSE IF encrypt_nonce(self.nonce) = 0
        THEN [status |-> CDS_ERROR_INVALID_RATE_LIMIT_STATE, self |-> self,
              out |-> NoOut]
        ELSE LET self1 == [self EXCEPT !.nonce = encrypt_nonce(self.nonce)]
                 added == RatelimitStateData_add(opened.pt, data_len, phones)
             IN  IF added.status # SGX_SUCCESS
                 THEN [status |-> added.status, self |-> self, out |-> NoOut]
                 ELSE [status |-> SGX_SUCCESS, self |-> self1,
                       out |-> AesGcmEncrypt(self1.key, get_iv(self1.nonce),
                                             added.pt)]

\* update encrypting under the nonce it decrypted with
update_encrypting_under_old_nonce(self, data_len, ct, phones, rand) ==
    LET opened == update_open(self, data_len, ct, rand)
    IN  IF opened.status # SGX_SUCCESS
        THEN [status |-> opened.status, self |-> self, out |-> NoOut]
        ELSE IF encrypt_nonce(self.nonce) = 0
        THEN [status |-> CDS_ERROR_INVALID_RATE_LIMIT_STATE, self |-> self,
              out |-> NoOut]
        ELSE LET self1 == [self EXCEPT !.nonce = encrypt_nonce(self.nonce)]
                 added == RatelimitStateData_add(opened.pt, data_len, phones)
             IN  IF added.status # SGX_SUCCESS
                 THEN [status |-> added.status, self |-> self1, out |-> NoOut]
                 ELSE [status |-> SGX_SUCCESS, self |-> self1,
                       out |-> AesGcmEncrypt(self.key, get_iv(self.nonce),
                                             added.pt)]

update(self, data_len, ct, phones, rand) ==
    LET opened == update_open(self, data_len, ct, rand)
    IN  IF opened.status # SGX_SUCCESS
        THEN [status |-> opened.status, self |-> self, out |-> NoOut]
        ELSE IF encrypt_nonce(self.nonce) = 0
        THEN [status |-> CDS_ERROR_INVALID_RATE_LIMIT_STATE, self |-> self,
              out |-> NoOut]
        ELSE LET self1 == [self EXCEPT !.nonce = encrypt_nonce(self.nonce)]
                 added == RatelimitStateData_add(opened.pt, data_len, phones)
             IN  IF added.status # SGX_SUCCESS
                 THEN [status |-> added.status, self |-> self1, out |-> NoOut]
                 ELSE [status |-> SGX_SUCCESS, self |-> self1,
                       out |-> AesGcmEncrypt(self1.key, get_iv(self1.nonce),
                                             added.pt)]

\* Default for RatelimitState: nonce 1 and a key drawn from RdRand; the
\* k-th key drawn is the key k (two draws never give the same key)
RatelimitState_default(nkeys) == [some |-> TRUE, nonce |-> 1, key |-> nkeys + 1]

None == [some |-> FALSE, nonce |-> 0, key |-> 0]

\* Option::get_or_insert_with(Default::default) on a locked cell
get_or_insert_with(cell, nkeys) ==
    IF cell.some THEN cell ELSE RatelimitState_default(nkeys)

keys_drawn(cell, nkeys) == IF cell.some THEN nkeys ELSE nkeys + 1

----------------------------------------------------------------------------
(* RatelimitStateMap *)

\* hash_map holds, for each key, the contents of its cell; arc holds the
\* allocation (Arc) the entry of the key points to, and arcs counts the
\* allocations made so far
NoMap == [once |-> FALSE, capacity |-> 0, hash_map |-> <<>>, arc |-> <<>>,
          arcs |-> 0]

\* RatelimitStateMap::global : call_once keeps the first caller's capacity
global(map, map_capacity) ==
    IF map.once THEN map
    ELSE [once |-> TRUE, capacity |-> map_capacity, hash_map |-> <<>>,
          arc |-> <<>>, arcs |-> 0]

\* a lookup that misses every entry
from_key_hashed_nocheck_never_found(hash_map, key) == FALSE

\* raw_entry().from_key_hashed_nocheck(hash, key), with the hash of the
\* map's own hasher: the entry of the key is found iff the map holds it
from_key_hashed_nocheck(hash_map, key) == key \in DOMAIN hash_map

\* or_insert_with(|| (*key, Default::default())) : the contents of the cells
\* after the call (the entry is inserted with a None cell when it is vacant)
get(hash_map, key) ==
    IF from_key_hashed_nocheck(hash_map, key) THEN hash_map
    ELSE [k \in (DOMAIN hash_map) \cup {key} |->
             IF k = key THEN None ELSE hash_map[k]]

\* RatelimitStateMap::get : the map after the call; a vacant entry is filled
\* with a newly allocated cell
RatelimitStateMap_get(map, key) ==
    IF from_key_hashed_nocheck(map.hash_map, key) THEN map
    ELSE [map EXCEPT !.hash_map = get(@, key),
                     !.arc = [k \in (DOMAIN @) \cup {key} |->
                                 IF k = key THEN map.arcs + 1 ELSE @[k]],
                     !.arcs = @ + 1]


----------------------------------------------------------------------------
(* The untrusted rate-limit slab of a request: size bytes, of which the     *)
(* last AES_GCM_MAC_LEN are the MAC; ct is what the leading bytes hold.     *)

NoSlab == [size |-> 0, ct |-> ZeroCt]

RlResult(status, map, nkeys, slab) ==
    [status |-> status, map |-> map, next_key |-> nkeys, slab |-> slab]

\* lines 226-248 / 111-127: with the cell's mutex held, install the default
\* state if the cell is None, run update, and write the result back on success
locked_update(map, nkeys, uuid, slab, data_len, phones, rand) ==
    LET m    == RatelimitStateMap_get(map, uuid)
        hm   == m.hash_map
        self == get_or_insert_with(hm[uuid], nkeys)
        r    == update(self, data_len, slab.ct, phones, rand)
    IN  RlResult(r.status,
                 [m EXCEPT !.hash_map = [hm EXCEPT ![uuid] = r.self]],
                 keys_drawn(hm[uuid], nkeys),
                 IF r.status = SGX_SUCCESS THEN [slab EXCEPT !.ct = r.out]
                 ELSE slab)

\* update_ratelimit_state falling back on the process-wide map
server_update_ratelimit_state_using_global(has_map, map, nkeys, query_phones_, uuid, slab, rand) ==
    LET ratelimit_state_data_len == checked_sub(slab.size, AES_GCM_MAC_LEN)
    IN  IF ratelimit_state_data_len < 0
        THEN RlResult(CDS_ERROR_INVALID_RATE_LIMIT_STATE, map, nkeys, slab)
        ELSE locked_update(global(map, 0), nkeys, uuid, slab,
                 ratelimit_state_data_len,
                 [i \in 1..Len(query_phones_) |-> hash_query_phone(query_phones_[i])],
                 rand)

\* SgxsdServerState::update_ratelimit_state
server_update_ratelimit_state(has_map, map, nkeys, query_phones_, uuid, slab, rand) ==
    LET ratelimit_state_data_len == checked_sub(slab.size, AES_GCM_MAC_LEN)
    IN  IF ratelimit_state_data_len < 0
        THEN RlResult(CDS_ERROR_INVALID_RATE_LIMIT_STATE, map, nkeys, slab)
        ELSE IF ~has_map
        THEN RlResult(SGX_ERROR_INVALID_STATE, map, nkeys, slab)
        ELSE locked_update(map, nkeys, uuid, slab, ratelimit_state_data_len,
                 [i \in 1..Len(query_phones_) |-> hash_query_phone(query_phones_[i])],
                 rand)

\* the free function update_ratelimit_state
update_ratelimit_state(map, nkeys, uuid, slab, query_phones_, rand) ==
    IF uuid = 0
    THEN RlResult(SGX_ERROR_INVALID_PARAMETER, map, nkeys, slab)
    ELSE LET ratelimit_state_data_len == checked_sub(slab.size, AES_GCM_MAC_LEN)
         IN  IF ratelimit_state_data_len < 0
             THEN RlResult(CDS_ERROR_INVALID_RATE_LIMIT_STATE, map, nkeys, slab)
             ELSE locked_update(global(map, 0), nkeys, uuid, slab,
                                ratelimit_state_data_len, query_phones_, rand)

\* delete taking the entry out of the map
delete_ratelimit_state_removing_entry(map, nkeys, uuid) ==
    IF uuid = 0
    THEN RlResult(SGX_ERROR_INVALID_PARAMETER, map, nkeys, NoSlab)
    ELSE LET m == global(map, 0)
         IN  RlResult(SGX_SUCCESS,
                      [m EXCEPT !.hash_map =
                                    [k \in (DOMAIN @) \ {uuid} |-> @[k]],
                                !.arc = [k \in (DOMAIN @) \ {uuid} |-> @[k]]],
                      nkeys, NoSlab)

\* the free function delete_ratelimit_state
delete_ratelimit_state(map, nkeys, uuid) ==
    IF uuid = 0
    THEN RlResult(SGX_ERROR_INVALID_PARAMETER, map, nkeys, NoSlab)
    ELSE LET m  == RatelimitStateMap_get(global(map, 0), uuid)
             hm == m.hash_map
         IN  RlResult(SGX_SUCCESS,
                      [m EXCEPT !.hash_map = [hm EXCEPT ![uuid] = None]],
                      nkeys, NoSlab)

----------------------------------------------------------------------------
(* SgxsdServerState *)

\* decode_request with the capacity check off by one
decode_request_off_by_one(args, len, cap) ==
    IF args.query_phone_count = 0 \/ args.query_phone_count > cap - len + 1
    THEN SGX_ERROR_INVALID_PARAMETER
    ELSE IF ~args.query_outside
    THEN SGX_ERROR_INVALID_PARAMETER
    ELSE LET query_phones_data_len ==
                 checked_sub(args.query_size, COMMITMENT_NONCE_SIZE)
         IN  IF query_phones_data_len < 0
             THEN CDS_ERROR_INVALID_REQUEST_SIZE
             ELSE IF \/ args.request_data_len # AES_GCM_KEY_LEN
                     \/ query_phones_data_len % BYTES_PER_PHONE # 0
                     \/ query_phones_data_len \div BYTES_PER_PHONE
                            # args.query_phone_count
             THEN CDS_ERROR_INVALID_REQUEST_SIZE
             ELSE IF ~args.query_auth
             THEN SGX_ERROR_MAC_MISMATCH
             ELSE IF ~args.commitment_ok
             THEN CDS_ERROR_QUERY_COMMITMENT_MISMATCH
             ELSE IF args.ratelimit_state_uuid # 0 /\ ~args.ratelimit_state_outside
             THEN SGX_ERROR_INVALID_PARAMETER
             ELSE SGX_SUCCESS

\* decode_request checking the count after the query was read and decrypted
decode_request_checking_count_last(args, len, cap) ==
    IF ~args.query_outside
    THEN SGX_ERROR_INVALID_PARAMETER
    ELSE LET query_phones_data_len ==
                 checked_sub(args.query_size, COMMITMENT_NONCE_SIZE)
         IN  IF query_phones_data_len < 0
             THEN CDS_ERROR_INVALID_REQUEST_SIZE
             ELSE IF \/ args.request_data_len # AES_GCM_KEY_LEN
                     \/ query_phones_data_len % BYTES_PER_PHONE # 0
                     \/ query_phones_data_len \div BYTES_PER_PHONE
                            # args.query_phone_count
             THEN CDS_ERROR_INVALID_REQUEST_SIZE
             ELSE IF ~args.query_auth
             THEN SGX_ERROR_MAC_MISMATCH
             ELSE IF ~args.commitment_ok
             THEN CDS_ERROR_QUERY_COMMITMENT_MISMATCH
             ELSE IF args.query_phone_count = 0
                     \/ args.query_phone_count > cap - len
             THEN SGX_ERROR_INVALID_PARAMETER
             ELSE IF args.ratelimit_state_uuid # 0 /\ ~args.ratelimit_state_outside
             THEN SGX_ERROR_INVALID_PARAMETER
             ELSE SGX_SUCCESS

\* CallArgs, with the facts about the untrusted memory it points to:
\*   present               args is Some
\*   query_phone_count     the count the caller claims
\*   query_outside         UntrustedSlice::new / read_bytes accept the query
\*   query_size            args.query.size
\*   query_auth            the query decrypts under request_data, iv and mac
\*   query_phones          the phones of the decrypted query
\*   commitment_ok         SHA-256 of the decrypted query is query_commitment
\*   request_data_len      request_data.len()
\*   ratelimit_state_uuid  0 is the all-zero UUID
\*   ratelimit_state_outside, ratelimit_state   the rate-limit slab
decode_request(args, len, cap) ==
    IF args.query_phone_count = 0 \/ args.query_phone_count > cap - len
    THEN SGX_ERROR_INVALID_PARAMETER
    ELSE IF ~args.query_outside
    THEN SGX_ERROR_INVALID_PARAMETER
    ELSE LET query_phones_data_len ==
                 checked_sub(args.query_size, COMMITMENT_NONCE_SIZE)
         IN  IF query_phones_data_len < 0
             THEN CDS_ERROR_INVALID_REQUEST_SIZE
             ELSE IF \/ args.request_data_len # AES_GCM_KEY_LEN
                     \/ query_phones_data_len % BYTES_PER_PHONE # 0
                     \/ query_phones_data_len \div BYTES_PER_PHONE
                            # args.query_phone_count
             THEN CDS_ERROR_INVALID_REQUEST_SIZE
             ELSE IF ~args.query_auth
             THEN SGX_ERROR_MAC_MISMATCH
             ELSE IF ~args.commitment_ok
             THEN CDS_ERROR_QUERY_COMMITMENT_MISMATCH
             ELSE IF args.ratelimit_state_uuid # 0 /\ ~args.ratelimit_state_outside
             THEN SGX_ERROR_INVALID_PARAMETER
             ELSE SGX_SUCCESS

CallResult(status, phones, reqs, rl) ==
    [status |-> status, query_phones |-> phones, requests |-> reqs, rl |-> rl]

\* the rate-limited branch extending the server's accumulator instead of a
\* PhoneList of its own
handle_call_ratelimited_shared_list(args, rand) ==
    LET rl == server_update_ratelimit_state(
                  ratelimit_state_map, RATELIMIT_STATE_MAP, next_key,
                  args.query_phones, args.ratelimit_state_uuid,
                  args.ratelimit_state, rand)
    IN  CallResult(rl.status, query_phones \o args.query_phones, requests, rl)

\* lines 282-287: the rate-limited branch of handle_call
handle_call_ratelimited(args, rand) ==
    LET rl == server_update_ratelimit_state(
                  ratelimit_state_map, RATELIMIT_STATE_MAP, next_key,
                  args.query_phones, args.ratelimit_state_uuid,
                  args.ratelimit_state, rand)
    IN  CallResult(rl.status, query_phones, requests, rl)

\* lines 288-297: the branch of handle_call that parks the caller
handle_call_enqueue(args, from, untouched) ==
    LET request_phone_count == Len(args.query_phones)
    IN  IF request_phone_count > U32_MAX
        THEN CallResult(SGX_ERROR_INVALID_PARAMETER, query_phones, requests,
                        untouched)
        ELSE CallResult(SGX_SUCCESS,
                        query_phones \o args.query_phones,
                        Append(requests,
                               [from |-> from,
                                request_phone_count |-> request_phone_count]),
                        untouched)

\* SgxsdServer::handle_call : the status returned with `from`, the
\* accumulator and the queue after the call, and the rate-limit effects
handle_call(args, from, rand) ==
    LET untouched == RlResult(SGX_SUCCESS, RATELIMIT_STATE_MAP, next_key,
                              args.ratelimit_state)
    IN  IF ~args.present
        THEN CallResult(SGX_ERROR_INVALID_PARAMETER, query_phones, requests,
                        untouched)
        ELSE LET decoded == decode_request(args, Len(query_phones), capacity)
             IN  IF decoded # SGX_SUCCESS
                 THEN CallResult(decoded, query_phones, requests, untouched)
                 ELSE IF args.ratelimit_state_uuid # 0
                 THEN handle_call_ratelimited(args, rand)
                 ELSE handle_call_enqueue(args, from, untouched)

----------------------------------------------------------------------------
(* terminate *)

ZeroUuid == 0

\* hash_lookup (crate::ffi::hash_lookup), by its contract: for each query
\* phone the UUID of the directory entry holding that phone, else zero
hash_lookup_one(in_phones, in_uuids, in_phone_count, q) ==
    LET hits == {j \in 1..in_phone_count : in_phones[j] = q}
    IN  IF hits = {} THEN ZeroUuid
        ELSE in_uuids[CHOOSE j \in hits : \A k \in hits : j <= k]

\* the j-th byte (from 0) of a UUID (little-endian; the model's UUIDs fit
\* one byte)
uuid_byte(u, j) == IF j = 0 THEN u ELSE 0

hash_lookup(in_phones, in_uuids, in_phone_count, query_phones_chunk) ==
    [i \in 1..Len(query_phones_chunk) |->
        hash_lookup_one(in_phones, in_uuids, in_phone_count, query_phones_chunk[i])]

\* the number of full chunks only
chunk_count_rounding_down(len, chunk_size) == len \div chunk_size

\* slice::chunks : the number of chunks of chunk_size items in len items
chunk_count(len, chunk_size) == (len + chunk_size - 1) \div chunk_size

\* the k-th chunk of query_phones.chunks(MAX_HASH_TABLE_SIZE)
query_phones_chunk(phones, k) ==
    SubSeq(phones, (k - 1) * MAX_HASH_TABLE_SIZE + 1,
           Min(k * MAX_HASH_TABLE_SIZE, Len(phones)))

\* result chunks of MAX_HASH_TABLE_SIZE bytes-per-phone entries
result_chunk_size_of_phones == MAX_HASH_TABLE_SIZE * BYTES_PER_PHONE

\* the size in bytes of the chunks of in_query_phones_result
result_chunk_size == MAX_HASH_TABLE_SIZE * BYTES_PER_UUID

\* the number of hash_lookup calls the zip of the two chunk iterators makes
zipped_chunks(phones, result_len) ==
    Min(chunk_count(Len(phones), MAX_HASH_TABLE_SIZE),
        chunk_count(result_len, result_chunk_size))

\* in_query_phones_result after the first n hash_lookup calls, byte by
\* byte: the byte at offset b lies in result chunk b / result_chunk_size,
\* inside the answer hash_lookup gives for the i-th phone of that chunk
result_bytes(answers, result_len, n) ==
    [b1 \in 1..result_len |->
        LET b == b1 - 1
            k == b \div result_chunk_size + 1
            i == (b % result_chunk_size) \div BYTES_PER_UUID + 1
        IN  IF k <= n /\ i <= Len(answers[k])
            THEN uuid_byte(answers[k][i], b % BYTES_PER_UUID)
            ELSE 0]

in_query_phones_result(args, phones, result_len, n) ==
    result_bytes([k \in 1..n |->
                     hash_lookup(args.in_phones, args.in_uuids,
                                 args.in_phone_count,
                                 query_phones_chunk(phones, k))],
                 result_len, n)

\* reply_loop splitting the buffer at request_phone_count * BYTES_PER_PHONE
RECURSIVE reply_loop_phone_sized(_, _, _, _)
reply_loop_phone_sized(reqs, remaining, nth, reply_fail) ==
    IF reqs = <<>> THEN <<>>
    ELSE LET mid   == Head(reqs).request_phone_count * BYTES_PER_PHONE
             reply == [to |-> Head(reqs).from,
                       data |-> SubSeq(remaining, 1, mid),
                       ok |-> nth # reply_fail]
         IN  IF nth = reply_fail THEN <<reply>>
             ELSE <<reply>> \o reply_loop_phone_sized(Tail(reqs),
                                   SubSeq(remaining, mid + 1, Len(remaining)),
                                   nth + 1, reply_fail)

\* the reply loop going on after a reply that failed
RECURSIVE reply_loop_past_failure(_, _, _, _)
reply_loop_past_failure(reqs, remaining, nth, reply_fail) ==
    IF reqs = <<>> THEN <<>>
    ELSE LET mid   == Head(reqs).request_phone_count * BYTES_PER_UUID
             reply == [to |-> Head(reqs).from,
                       data |-> SubSeq(remaining, 1, mid),
                       ok |-> nth # reply_fail]
         IN  <<reply>> \o reply_loop_past_failure(Tail(reqs),
                              SubSeq(remaining, mid + 1, Len(remaining)),
                              nth + 1, reply_fail)

\* the replies of the loop over self.requests: the request at the head takes
\* the first request_phone_count * BYTES_PER_UUID bytes of what remains; the
\* reply_fail-th call of reply fails and ends the loop
RECURSIVE reply_loop(_, _, _, _)
reply_loop(reqs, remaining, nth, reply_fail) ==
    IF reqs = <<>> THEN <<>>
    ELSE LET mid   == Head(reqs).request_phone_count * BYTES_PER_UUID
             reply == [to |-> Head(reqs).from,
                       data |-> SubSeq(remaining, 1, mid),
                       ok |-> nth # reply_fail]
         IN  IF nth = reply_fail THEN <<reply>>
             ELSE <<reply>> \o reply_loop(Tail(reqs),
                                          SubSeq(remaining, mid + 1, Len(remaining)),
                                          nth + 1, reply_fail)

TermResult(status, looked, sent) ==
    [status |-> status, lookups |-> looked, replies |-> sent]

\* terminate without the check of the in_uuids range
terminate_trusting_in_uuids(args, reqs, phones, lookup_fail, reply_fail) ==
    IF ~args.present THEN TermResult(SGX_ERROR_INVALID_PARAMETER, <<>>, <<>>)
    ELSE IF checked_mul(args.in_phone_count, BYTES_PER_PHONE) < 0
    THEN TermResult(SGX_ERROR_INVALID_PARAMETER, <<>>, <<>>)
    ELSE IF checked_mul(args.in_phone_count, BYTES_PER_UUID) < 0
    THEN TermResult(SGX_ERROR_INVALID_PARAMETER, <<>>, <<>>)
    ELSE IF ~args.in_phones_outside
    THEN TermResult(SGX_ERROR_INVALID_PARAMETER, <<>>, <<>>)
    ELSE LET in_query_phones_result_len == checked_mul(Len(phones), BYTES_PER_UUID)
         IN  IF in_query_phones_result_len < 0
             THEN TermResult(SGX_ERROR_INVALID_PARAMETER, <<>>, <<>>)
             ELSE LET n    == zipped_chunks(phones, in_query_phones_result_len)
                      done == IF lookup_fail \in 1..n THEN lookup_fail ELSE n
                      looked == [k \in 1..done |->
                                    [in_phones |-> args.in_phones,
                                     in_uuids |-> args.in_uuids,
                                     in_phone_count |-> args.in_phone_count,
                                     query_phones |-> query_phones_chunk(phones, k)]]
                  IN  IF lookup_fail \in 1..n
                      THEN TermResult(HASH_LOOKUP_ERROR, looked, <<>>)
                      ELSE LET sent == reply_loop(reqs,
                                           in_query_phones_result(args, phones,
                                               in_query_phones_result_len, n),
                                           1, reply_fail)
                           IN  TermResult(
                                   IF reply_fail \in 1..Len(reqs)
                                   THEN REPLY_ERROR ELSE SGX_SUCCESS,
                                   looked, sent)

\* SgxsdServer::terminate ; lookup_fail = k makes the k-th hash_lookup call
\* fail, reply_fail = i the i-th reply (0: none fails)
terminate(args, reqs, phones, lookup_fail, reply_fail) ==
    IF ~args.present THEN TermResult(SGX_ERROR_INVALID_PARAMETER, <<>>, <<>>)
    ELSE IF checked_mul(args.in_phone_count, BYTES_PER_PHONE) < 0
    THEN TermResult(SGX_ERROR_INVALID_PARAMETER, <<>>, <<>>)
    ELSE IF checked_mul(args.in_phone_count, BYTES_PER_UUID) < 0
    THEN TermResult(SGX_ERROR_INVALID_PARAMETER, <<>>, <<>>)
    ELSE IF ~args.in_phones_outside
    THEN TermResult(SGX_ERROR_INVALID_PARAMETER, <<>>, <<>>)
    ELSE IF ~args.in_uuids_outside
    THEN TermResult(SGX_ERROR_INVALID_PARAMETER, <<>>, <<>>)
    ELSE LET in_query_phones_result_len == checked_mul(Len(phones), BYTES_PER_UUID)
         IN  IF in_query_phones_result_len < 0
             THEN TermResult(SGX_ERROR_INVALID_PARAMETER, <<>>, <<>>)
             ELSE LET n    == zipped_chunks(phones, in_query_phones_result_len)
                      done == IF lookup_fail \in 1..n THEN lookup_fail ELSE n
                      looked == [k \in 1..done |->
                                    [in_phones |-> args.in_phones,
                                     in_uuids |-> args.in_uuids,
                                     in_phone_count |-> args.in_phone_count,
                                     query_phones |-> query_phones_chunk(phones, k)]]
                  IN  IF lookup_fail \in 1..n
                      THEN TermResult(HASH_LOOKUP_ERROR, looked, <<>>)
                      ELSE LET sent == reply_loop(reqs,
                                           in_query_phones_result(args, phones,
                                               in_query_phones_result_len, n),
                                           1, reply_fail)
                           IN  TermResult(
                                   IF reply_fail \in 1..Len(reqs)
                                   THEN REPLY_ERROR ELSE SGX_SUCCESS,
                                   looked, sent)


----------------------------------------------------------------------------
(* Inputs *)

QueryPhoneLists == {<<1>>, <<2, 1>>, <<3, 3>>}

\* well-formed CallArgs for a query of the given phones
GoodArgs(phones, uuid, slab) ==
    [present |-> TRUE,
     query_phone_count |-> Len(phones),
     query_outside |-> TRUE,
     query_size |-> COMMITMENT_NONCE_SIZE + BYTES_PER_PHONE * Len(phones),
     query_auth |-> TRUE,
     query_phones |-> phones,
     commitment_ok |-> TRUE,
     request_data_len |-> AES_GCM_KEY_LEN,
     ratelimit_state_uuid |-> uuid,
     ratelimit_state_outside |-> TRUE,
     ratelimit_state |-> slab]

\* the same CallArgs with one thing wrong
Faults == {"none", "no_args", "query_inside", "short_query", "ragged_query",
           "key_len", "query_mac", "commitment", "ratelimit_inside"}

WithFault(a, fault) ==
    CASE fault = "none" -> a
      [] fault = "no_args" -> [a EXCEPT !.present = FALSE]
      [] fault = "query_inside" -> [a EXCEPT !.query_outside = FALSE]
      [] fault = "short_query" ->
             [a EXCEPT !.query_size = COMMITMENT_NONCE_SIZE - 1,
                       !.query_phones = <<>>]
      [] fault = "ragged_query" -> [a EXCEPT !.query_size = @ + 4]
      [] fault = "key_len" -> [a EXCEPT !.request_data_len = 16]
      [] fault = "query_mac" -> [a EXCEPT !.query_auth = FALSE]
      [] fault = "commitment" -> [a EXCEPT !.commitment_ok = FALSE]
      [] fault = "ratelimit_inside" -> [a EXCEPT !.ratelimit_state_outside = FALSE]

\* the client UUIDs of rate-limited requests
Uuids == {1, 2}

ZeroSlab(size) == [size |-> size, ct |-> ZeroCt]
JunkSlab(size) == [size |-> size, ct |-> JunkCt]

\* slab sizes: shorter than a MAC; 3 slots (size limit 1); 4 slots (2 or 3)
ShortSlabSize == AES_GCM_MAC_LEN \div 2
SmallSlabSize == SIZE_LIMIT_DATA_LEN + 4 * BYTES_PER_PHONE + AES_GCM_MAC_LEN
SlabSize == SIZE_LIMIT_DATA_LEN + 6 * BYTES_PER_PHONE + AES_GCM_MAC_LEN

Directories ==
    {[in_phones |-> <<>>, in_uuids |-> <<>>],
     [in_phones |-> <<1>>, in_uuids |-> <<7>>],
     [in_phones |-> <<2, 1>>, in_uuids |-> <<7, 9>>],
     [in_phones |-> <<3, 2>>, in_uuids |-> <<9, 7>>]}

StopArgs(present, count, phones_outside, uuids_outside, d) ==
    [present |-> present, in_phone_count |-> count,
     in_phones_outside |-> phones_outside, in_uuids_outside |-> uuids_outside,
     in_phones |-> d.in_phones, in_uuids |-> d.in_uuids]

NoDirectory == [in_phones |-> <<>>, in_uuids |-> <<>>]

\* a directory with its length; a pointer into the enclave; no arguments;
\* a count whose size in bytes overflows usize
StopArgsSet ==
    {StopArgs(TRUE, Len(d.in_phones), TRUE, TRUE, d) : d \in Directories}
    \cup {StopArgs(TRUE, 1, po, uo, [in_phones |-> <<1>>, in_uuids |-> <<7>>]) :
            po \in BOOLEAN, uo \in BOOLEAN}
    \cup {StopArgs(FALSE, 0, TRUE, TRUE, NoDirectory)}
    \cup {StopArgs(TRUE, c, po, uo, NoDirectory) :
            c \in {USIZE_MAX \div BYTES_PER_UUID + 1,
                   USIZE_MAX \div BYTES_PER_PHONE + 1},
            po \in BOOLEAN, uo \in BOOLEAN}

----------------------------------------------------------------------------
(* State *)

\* what the last operation was given of StopArgs (terminate only)
NoStop == [present |-> FALSE, in_phone_count |-> 0,
           in_phones_outside |-> FALSE, in_uuids_outside |-> FALSE,
           valid |-> FALSE]

Last(op, status, from, uuid, count, phones, slab_in, slab_out, rand) ==
    [op |-> op, status |-> status, from |-> from, uuid |-> uuid,
     count |-> count, phones |-> phones, slab_in |-> slab_in,
     slab_out |-> slab_out, rand |-> rand, stop |-> NoStop]

\* the local variables of a thread that runs no operation
IdleLoc ==
    [op |-> "none", uuid |-> 0, slab |-> NoSlab, phones |-> <<>>, rand |-> 0,
     self |-> None, pt |-> NoPt, out |-> NoSlab, status |-> SGX_SUCCESS,
     cell |-> 0]

\* SgxsdServer::init with Some(StartArgs)
init(max_query_phones, max_ratelimit_states) ==
    [requests |-> <<>>,
     query_phones |-> <<>>,
     capacity |-> max_query_phones,
     ratelimit_state_map |-> (max_ratelimit_states # 0),
     map |-> IF max_ratelimit_states = 0 THEN NoMap
             ELSE global(NoMap, max_ratelimit_states)]

\* the state after init, in a build with or without overflow checks, with
\* the outcomes of the updates kept or not
InitKeeping(server, checks, kept) ==
    /\ phase = "ACCEPTING"
    /\ requests = server.requests
    /\ query_phones = server.query_phones
    /\ capacity = server.capacity
    /\ ratelimit_state_map = server.ratelimit_state_map
    /\ RATELIMIT_STATE_MAP = server.map
    /\ next_key = 0
    /\ revealed = <<>>
    /\ replies = <<>>
    /\ lookups = <<>>
    /\ submitted = <<>>
    /\ current = [u \in Uuids |-> NoSlab]
    /\ stale = [u \in Uuids |-> NoSlab]
    /\ last = Last("init", SGX_SUCCESS, 0, 0, 0, <<>>, NoSlab, NoSlab, 0)
    /\ pc = [t \in 1..MaxThreads |-> "idle"]
    /\ loc = [t \in 1..MaxThreads |-> IdleLoc]
    /\ map_lock = 0
    /\ cell_lock = [u \in Uuids |-> 0]
    /\ hashing = NoHashing
    /\ overflow_checks = checks
    /\ outcomes = [kept |-> kept, returned |-> EmptyBag]

InitBuild(server, checks) == InitKeeping(server, checks, FALSE)

InitWith(server) == InitBuild(server, FALSE)

Init ==
    \E max_query_phones \in 0..MaxCapacity, max_ratelimit_states \in {0, 1} :
        InitWith(init(max_query_phones, max_ratelimit_states))

\* the highest nonce handed back under key so far (0: none yet)
Revealed(key) == IF key \in DOMAIN revealed THEN revealed[key] ELSE 0

\* a ciphertext is written back to a caller's slab
Reveal(slab) ==
    [k \in DOMAIN revealed \cup {slab.ct.key} |->
        IF k = slab.ct.key /\ IvNonce(slab.ct.iv) > Revealed(k)
        THEN IvNonce(slab.ct.iv) ELSE Revealed(k)]

\* the transport's handle of the caller that arrives when k callers are parked
MsgFrom(k) == ((3 * k) % 7) + 1

CellOf(map, uuid) ==
    IF uuid \in DOMAIN map.hash_map THEN map.hash_map[uuid] ELSE None

\* the bounds: no step draws a key past MaxKeys or takes a nonce past
\* MaxNonce, other than a nonce among the last MaxNonce ones before u32::MAX
WithinBounds(map, nkeys) ==
    /\ nkeys <= MaxKeys
    /\ \A u \in DOMAIN map.hash_map :
           \/ map.hash_map[u].nonce <= MaxNonce
           \/ map.hash_map[u].nonce > U32_MAX - MaxNonce

\* the slab the cell of uuid stands by after a step that returned status and
\* slab: the one it returned on success, the earlier one while the cell is
\* as it was, none otherwise
Current(map, uuid, status, slab) ==
    [u \in Uuids |->
        IF u # uuid THEN current[u]
        ELSE IF status = SGX_SUCCESS THEN slab
        ELSE IF CellOf(map, u) = CellOf(RATELIMIT_STATE_MAP, u) THEN current[u]
        ELSE NoSlab]

\* the slab that the cell of each UUID stood by last and no longer does
Stale(now) ==
    [u \in Uuids |-> IF now[u] = current[u] \/ current[u] = NoSlab
                     THEN stale[u] ELSE current[u]]

----------------------------------------------------------------------------
(* Operations *)

HandleCalled(args, from, rand, r) ==
    /\ WithinBounds(r.rl.map, r.rl.next_key)
    /\ query_phones' = r.query_phones
    /\ requests' = r.requests
    /\ RATELIMIT_STATE_MAP' = r.rl.map
    /\ next_key' = r.rl.next_key
    /\ revealed' =
           IF r.rl.slab # args.ratelimit_state
           THEN Reveal(r.rl.slab)
           ELSE revealed
    /\ submitted' = IF Len(r.requests) > Len(requests)
                     THEN Append(submitted, args.query_phones)
                     ELSE submitted
    /\ current' = IF args.present /\ args.ratelimit_state_uuid # 0
                   THEN Current(r.rl.map, args.ratelimit_state_uuid,
                                r.status, r.rl.slab)
                   ELSE current
    /\ stale' = Stale(current')
    /\ last' = Last("handle_call", r.status, from,
                    args.ratelimit_state_uuid, args.query_phone_count,
                    args.query_phones, args.ratelimit_state, r.rl.slab, rand)

HandleCall(args, rand) ==
    /\ phase = "ACCEPTING"
    /\ HandleCalled(args, MsgFrom(Len(requests)), rand,
                    handle_call(args, MsgFrom(Len(requests)), rand))
    /\ UNCHANGED <<phase, capacity, ratelimit_state_map, replies, lookups>>
    /\ UNCHANGED threadVars
    /\ UNCHANGED <<hashing, overflow_checks, outcomes>>

Terminated(args, r) ==
    /\ replies' = r.replies
    /\ lookups' = r.lookups
    /\ last' = [Last("terminate", r.status, 0, 0, 0, <<>>, NoSlab, NoSlab, 0)
                   EXCEPT !.stop =
                       [present |-> args.present,
                        in_phone_count |-> args.in_phone_count,
                        in_phones_outside |-> args.in_phones_outside,
                        in_uuids_outside |-> args.in_uuids_outside,
                        valid |-> /\ args.present
                                  /\ args.in_phones_outside
                                  /\ args.in_uuids_outside
                                  /\ args.in_phone_count = Len(args.in_phones)]]

Terminate(args, lookup_fail, reply_fail) ==
    /\ phase = "ACCEPTING"
    /\ Terminated(args,
                  terminate(args, requests, query_phones, lookup_fail, reply_fail))
    /\ phase' = "TERMINATED"
    /\ UNCHANGED <<requests, query_phones, capacity, ratelimit_state_map,
                   RATELIMIT_STATE_MAP, next_key, revealed, submitted,
                   current, stale>>
    /\ UNCHANGED threadVars
    /\ UNCHANGED <<hashing, overflow_checks, outcomes>>

RatelimitStateUpdated(uuid, slab, phones, rand, r) ==
    /\ WithinBounds(r.map, r.next_key)
    /\ RATELIMIT_STATE_MAP' = r.map
    /\ next_key' = r.next_key
    /\ revealed' = IF r.slab # slab
                   THEN Reveal(r.slab)
                   ELSE revealed
    /\ current' = IF uuid # 0 THEN Current(r.map, uuid, r.status, r.slab)
                   ELSE current
    /\ stale' = Stale(current')
    /\ last' = Last("update_ratelimit_state", r.status, 0, uuid,
                    Len(phones), phones, slab, r.slab, rand)

UpdateRatelimitState(uuid, slab, phones, rand) ==
    /\ RatelimitStateUpdated(uuid, slab, phones, rand,
           update_ratelimit_state(RATELIMIT_STATE_MAP, next_key, uuid, slab,
                                  phones, rand))
    /\ UNCHANGED <<replies, lookups, submitted>>
    /\ UNCHANGED serverVars
    /\ UNCHANGED <<hashing, overflow_checks, outcomes>>
    /\ UNCHANGED threadVars

RatelimitStateDeleted(uuid, r) ==
    /\ RATELIMIT_STATE_MAP' = r.map
    /\ current' = [u \in Uuids |-> IF u = uuid THEN NoSlab ELSE current[u]]
    /\ stale' = Stale(current')
    /\ last' = Last("delete_ratelimit_state", r.status, 0, uuid, 0, <<>>,
                    NoSlab, NoSlab, 0)

DeleteRatelimitState(uuid) ==
    /\ RatelimitStateDeleted(uuid,
           delete_ratelimit_state(RATELIMIT_STATE_MAP, next_key, uuid))
    /\ UNCHANGED <<next_key, revealed, replies, lookups, submitted>>
    /\ UNCHANGED serverVars
    /\ UNCHANGED <<hashing, overflow_checks, outcomes>>
    /\ UNCHANGED threadVars

----
(* The batching server: calls of every shape, then terminate. *)

BatchSlabs == {ZeroSlab(ShortSlabSize), ZeroSlab(SlabSize)}

\* queries without a rate-limit state: well-formed ones, ones with one
\* thing wrong, ones that claim another count; queries with a rate-limit state
BatchCallArgs ==
    {GoodArgs(phones, 0, NoSlab) : phones \in QueryPhoneLists}
    \cup {WithFault(GoodArgs(<<2, 1>>, 0, NoSlab), fault) :
            fault \in Faults \ {"ratelimit_inside"}}
    \cup {[WithFault(GoodArgs(<<2, 1>>, 0, NoSlab), fault)
               EXCEPT !.query_phone_count = count] :
            fault \in {"none", "query_inside", "query_mac"},
            count \in {0, 3, MaxCapacity + 1}}
    \cup {WithFault(GoodArgs(<<1>>, 1, slab), fault) :
            slab \in BatchSlabs, fault \in {"none", "ratelimit_inside"}}

StopArgsValid(args) ==
    /\ args.present /\ args.in_phones_outside /\ args.in_uuids_outside
    /\ args.in_phone_count = Len(args.in_phones)

\* the calls of hash_lookup and of reply that fail: none, or one of them
Failures == {<<0, 0>>, <<1, 0>>, <<2, 0>>, <<0, 1>>, <<0, 2>>}

Next ==
    \/ \E args \in BatchCallArgs : HandleCall(args, 0)
    \/ \E args \in StopArgsSet :
           \E fail \in (IF StopArgsValid(args) THEN Failures ELSE {<<0, 0>>}) :
               Terminate(args, fail[1], fail[2])

Spec == Init /\ [][Next]_vars

----------------------------------------------------------------------------
(* The rate-limit state: updates through handle_call and through the free   *)
(* function, and deletes, on the cells of Uuids.  A caller presents an      *)
(* all-zero state, a forged one, one too short to hold a MAC, or a          *)
(* ciphertext that was handed back earlier (to it or to another caller).    *)

RlPhoneLists == {<<1>>}

RlSlabs ==
    {ZeroSlab(ShortSlabSize), ZeroSlab(SlabSize), JunkSlab(SlabSize)}
    \cup (({current[u] : u \in Uuids} \cup {stale[u] : u \in Uuids})
              \ {NoSlab})

\* RdRand is drawn for the size limit only when update finds an all-zero
\* state; a draw below zero is a draw that fails
RandDraws(slab) ==
    IF all_zero(slab.ct) /\ slab.size >= AES_GCM_MAC_LEN
    THEN -1..MaxRand ELSE {0}

InitRL ==
    \E max_ratelimit_states \in {0, 1} :
        InitWith(init(MaxCapacity, max_ratelimit_states))

NextRL ==
    \/ \E slab \in RlSlabs :
           \E rand \in RandDraws(slab) :
               HandleCall(GoodArgs(<<1>>, 1, slab), rand)
    \/ \E slab \in RlSlabs, phones \in RlPhoneLists :
           \E rand \in RandDraws(slab) :
               UpdateRatelimitState(1, slab, phones, rand)
    \/ UpdateRatelimitState(0, ZeroSlab(SlabSize), <<1>>, 0)
    \/ \E uuid \in {0, 1} : DeleteRatelimitState(uuid)

SpecRL == InitRL /\ [][NextRL]_vars

----------------------------------------------------------------------------
(* First updates: the free function on the cell of one UUID, with all-zero  *)
(* states of two sizes or the ciphertext the cell stands by, and deletes.   *)

FreshPhoneLists == {<<>>, <<4660>>}

FreshSlabs(uuid) ==
    ({ZeroSlab(SmallSlabSize), ZeroSlab(SlabSize), current[uuid]}) \ {NoSlab}

NextFresh ==
    \/ \E phones \in FreshPhoneLists :
           \E slab \in FreshSlabs(1) :
               \E rand \in RandDraws(slab) :
                   UpdateRatelimitState(1, slab, phones, rand)
    \/ DeleteRatelimitState(1)

SpecFresh == InitRL /\ [][NextFresh]_vars

----------------------------------------------------------------------------
(* The last nonces: a cell that has been updated up to MaxNonce nonces      *)
(* short of u32::MAX, and stands by the ciphertext of its last update.      *)

OldCell == [some |-> TRUE, nonce |-> U32_MAX - MaxNonce + 1, key |-> 1]

OldSlab ==
    [size |-> SlabSize,
     ct |-> AesGcmEncrypt(OldCell.key, get_iv(OldCell.nonce),
                          [size_limit |-> 3, slots |-> {1}])]

InitWrap ==
    /\ phase = "ACCEPTING"
    /\ requests = <<>>
    /\ query_phones = <<>>
    /\ capacity = MaxCapacity
    /\ ratelimit_state_map = TRUE
    /\ RATELIMIT_STATE_MAP =
           [RatelimitStateMap_get(global(NoMap, 1), 1)
               EXCEPT !.hash_map = [u \in {1} |-> OldCell]]
    /\ next_key = 1
    /\ revealed = [k \in {1} |-> OldCell.nonce]
    /\ replies = <<>>
    /\ lookups = <<>>
    /\ submitted = <<>>
    /\ current = [u \in Uuids |-> IF u = 1 THEN OldSlab ELSE NoSlab]
    /\ stale = [u \in Uuids |-> NoSlab]
    /\ last = Last("init", SGX_SUCCESS, 0, 0, 0, <<>>, NoSlab, NoSlab, 0)
    /\ pc = [t \in 1..MaxThreads |-> "idle"]
    /\ loc = [t \in 1..MaxThreads |-> IdleLoc]
    /\ map_lock = 0
    /\ cell_lock = [u \in Uuids |-> 0]
    /\ hashing = NoHashing
    /\ overflow_checks = FALSE
    /\ outcomes = [kept |-> FALSE, returned |-> EmptyBag]

WrapSlabs ==
    {ZeroSlab(SlabSize), JunkSlab(SlabSize)}
    \cup (({current[1], stale[1]}) \ {NoSlab})

NextWrap ==
    \/ \E slab \in WrapSlabs :
           \E rand \in RandDraws(slab) :
               HandleCall(GoodArgs(<<1>>, 1, slab), rand)
    \/ \E slab \in WrapSlabs :
           \E rand \in RandDraws(slab) :
               UpdateRatelimitState(1, slab, <<1>>, rand)
    \/ DeleteRatelimitState(1)

SpecWrap == InitWrap /\ [][NextWrap]_vars

----------------------------------------------------------------------------
(* Concurrent RatelimitStateMap::get.  Each thread obtains the map from     *)
(* global and calls get for a UUID; its pc is the next access it makes:     *)
(*   lookup   the lookup under the upgradeable read lock (lines 399-401)    *)
(*   upgrade  the upgrade to the write lock and or_insert_with (403-408)    *)
(*   got      the thread holds the handle get returned                      *)
(* Between the gets, cells are updated and deleted.                         *)

\* global, and hash_map.upgradeable_read(): granted while no thread holds an
\* upgradeable or a write lock
GetCall(t, uuid, map_capacity) ==
    /\ pc[t] = "idle"
    /\ map_lock = 0
    /\ RATELIMIT_STATE_MAP' = global(RATELIMIT_STATE_MAP, map_capacity)
    /\ map_lock' = t
    /\ loc' = [loc EXCEPT ![t] = [IdleLoc EXCEPT !.op = "get", !.uuid = uuid]]
    /\ pc' = [pc EXCEPT ![t] = "lookup"]
    /\ UNCHANGED <<next_key, cell_lock>>
    /\ UNCHANGED <<revealed, replies, lookups, submitted, current, stale, last>>
    /\ UNCHANGED serverVars
    /\ UNCHANGED <<hashing, overflow_checks, outcomes>>

\* lines 400-401: the entry is found, its Arc cloned and the lock dropped;
\* or the entry is missing
GetLookup(t) ==
    /\ pc[t] = "lookup"
    /\ IF from_key_hashed_nocheck(RATELIMIT_STATE_MAP.hash_map, loc[t].uuid)
       THEN /\ loc' = [loc EXCEPT ![t].cell =
                          RATELIMIT_STATE_MAP.arc[loc[t].uuid]]
            /\ map_lock' = 0
            /\ pc' = [pc EXCEPT ![t] = "got"]
       ELSE /\ pc' = [pc EXCEPT ![t] = "upgrade"]
            /\ UNCHANGED <<loc, map_lock>>
    /\ UNCHANGED <<RATELIMIT_STATE_MAP, next_key, cell_lock>>
    /\ UNCHANGED <<revealed, replies, lookups, submitted, current, stale, last>>
    /\ UNCHANGED serverVars
    /\ UNCHANGED <<hashing, overflow_checks, outcomes>>

\* lines 403-408: the entry is looked up again under the write lock and
\* inserted if vacant, its Arc cloned and the lock dropped
GetUpgrade(t) ==
    /\ pc[t] = "upgrade"
    /\ RATELIMIT_STATE_MAP' =
           RatelimitStateMap_get(RATELIMIT_STATE_MAP, loc[t].uuid)
    /\ loc' = [loc EXCEPT ![t].cell = RATELIMIT_STATE_MAP'.arc[loc[t].uuid]]
    /\ map_lock' = 0
    /\ pc' = [pc EXCEPT ![t] = "got"]
    /\ UNCHANGED <<next_key, cell_lock>>
    /\ UNCHANGED <<revealed, replies, lookups, submitted, current, stale, last>>
    /\ UNCHANGED serverVars
    /\ UNCHANGED <<hashing, overflow_checks, outcomes>>

\* the handle is dropped
GetDrop(t) ==
    /\ pc[t] = "got"
    /\ loc' = [loc EXCEPT ![t] = IdleLoc]
    /\ pc' = [pc EXCEPT ![t] = "idle"]
    /\ UNCHANGED <<RATELIMIT_STATE_MAP, next_key, map_lock, cell_lock>>
    /\ UNCHANGED <<revealed, replies, lookups, submitted, current, stale, last>>
    /\ UNCHANGED serverVars
    /\ UNCHANGED <<hashing, overflow_checks, outcomes>>

NextGet ==
    \/ \E t \in 1..MaxThreads :
           \/ \E uuid \in Uuids, map_capacity \in {0, 1} :
                  GetCall(t, uuid, map_capacity)
           \/ GetLookup(t)
           \/ GetUpgrade(t)
           \/ GetDrop(t)
    \/ map_lock = 0 /\ UpdateRatelimitState(1, ZeroSlab(SlabSize), <<1>>, 0)
    \/ map_lock = 0 /\ DeleteRatelimitState(1)

SpecGet == InitRL /\ [][NextGet]_vars

----------------------------------------------------------------------------
(* hash_query_phone on its own, one SHA-1 evaluation per step: the phones   *)
(* are u64 values of three limbs, the evaluations made so far are kept as   *)
(* history.                                                                 *)

HashPhones ==
    {<<0, 0, 0>>, <<0, 0, 1>>, <<0, 0, 9>>, <<0, 0, 10>>, <<0, 0, 4660>>,
     <<0, 0, 100200>>, <<0, 0, 999999999>>, <<0, 1, 0>>,
     <<0, 1234, 567890123>>, <<1, 0, 0>>, <<9, 223372036, 854775807>>,
     <<10, 0, 0>>, <<18, 446744073, 709551614>>, U64_MAX}

\* hash_query_phone(&mut phone): the digits are laid out, the loop of
\* hash_ascii_phone starts on all twenty of them
HashQueryPhone(phone) ==
    /\ hashing.pc \in {"idle", "done"}
    /\ hashing' = [pc             |-> "loop",
                   input          |-> phone,
                   phone          |-> phone,
                   ascii_phone    |-> ascii_phone_of(phone, 20),
                   leading_zeroes |-> TRUE,
                   evaluations    |-> <<>>]
    /\ UNCHANGED <<RATELIMIT_STATE_MAP, next_key, revealed, replies, lookups,
                   submitted, current, stale, last>>
    /\ UNCHANGED serverVars
    /\ UNCHANGED threadVars
    /\ UNCHANGED <<overflow_checks, outcomes>>

\* one turn of the while loop of hash_ascii_phone
HashTruncated ==
    /\ hashing.pc = "loop"
    /\ hashing.ascii_phone # <<>>
    /\ LET ascii_phone  == hashing.ascii_phone
           leading_zero == (ascii_phone[1] = 0)
           choice       == hashing.leading_zeroes /\ ~leading_zero
       IN  hashing' =
               [hashing EXCEPT
                   !.phone = hash_truncated(ascii_phone, @, choice),
                   !.leading_zeroes = @ /\ leading_zero,
                   !.ascii_phone = Tail(ascii_phone),
                   !.evaluations =
                       Append(@, [data |-> ascii_phone, choice |-> choice])]
    /\ UNCHANGED <<RATELIMIT_STATE_MAP, next_key, revealed, replies, lookups,
                   submitted, current, stale, last>>
    /\ UNCHANGED serverVars
    /\ UNCHANGED threadVars
    /\ UNCHANGED <<overflow_checks, outcomes>>

\* the loop ends on the empty slice and hash_query_phone returns
HashReturn ==
    /\ hashing.pc = "loop"
    /\ hashing.ascii_phone = <<>>
    /\ hashing' = [hashing EXCEPT !.pc = "done"]
    /\ UNCHANGED <<RATELIMIT_STATE_MAP, next_key, revealed, replies, lookups,
                   submitted, current, stale, last>>
    /\ UNCHANGED serverVars
    /\ UNCHANGED threadVars
    /\ UNCHANGED <<overflow_checks, outcomes>>

NextHash ==
    \/ \E phone \in HashPhones : HashQueryPhone(phone)
    \/ HashTruncated
    \/ HashReturn

SpecHash == InitRL /\ [][NextHash]_vars

----------------------------------------------------------------------------
(* First updates on states of every length: the free function on the cell  *)
(* of one UUID, fresh or deleted, with all-zero and forged states from a    *)
(* bare MAC upwards, in a build that wraps on overflow and in one that      *)
(* panics.                                                                  *)

\* lengths of the data before the MAC: none, too short for a size limit,
\* 0, 1 and 2 raw slots (no effective slot to halve), 3, 4 and 6 raw slots
LimitDataLens == {0, 2, 4, 12, 20, 28, 36, 52}

LimitSlabs ==
    {ZeroSlab(AES_GCM_MAC_LEN + d) : d \in LimitDataLens}
    \cup {JunkSlab(AES_GCM_MAC_LEN + 2)}

LimitPhoneLists == {<<>>, <<1>>}

InitLimit ==
    \E checks \in BOOLEAN : InitBuild(init(0, 1), checks)

\* the caller deletes the UUID's state before it presents the next one
NextLimit ==
    \/ /\ ~CellOf(RATELIMIT_STATE_MAP, 1).some
       /\ \E slab \in LimitSlabs, phones \in LimitPhoneLists :
              \E rand \in RandDraws(slab) :
                  UpdateRatelimitState(1, slab, phones, rand)
    \/ DeleteRatelimitState(1)

SpecLimit == InitLimit /\ [][NextLimit]_vars

----------------------------------------------------------------------------
(* Concurrent rate-limit operations.  Each thread runs a rate-limited       *)
(* handle_call on a server instance of its own, the free function           *)
(* update_ratelimit_state, or delete_ratelimit_state; the threads share the *)
(* map and its cells.  A thread's pc is the next access it makes to what    *)
(* the threads share:                                                       *)
(*   insert   RatelimitStateMap::get finds or inserts the cell and          *)
(*            releases the hash_map lock it took                            *)
(*   lock     ratelimit_state_lock.lock()                                   *)
(*   open     get_or_insert_with, and the read of the nonce for decrypt     *)
(*   inc      the write of the incremented nonce (followed by add)          *)
(*   encrypt  the read of the nonce and key for encrypt (followed by the    *)
(*            write to the caller's slab and the return)                    *)
(*   clear    delete's assignment of None (followed by the return)          *)

RlOps == {"handle_call", "update_ratelimit_state", "delete_ratelimit_state"}

\* the accesses of an update from the nonce read of the decryption to the
\* encryption, and delete's assignment
CriticalSection == {"open", "inc", "encrypt", "clear"}

\* the guard dropped at the end of the statement that took it
holds_guard_for_statement(op, at) ==
    IF op = "delete_ratelimit_state" THEN at = "clear" ELSE at = "open"

\* where the thread holds the cell's MutexGuard: locked_ratelimit_state
\* lives to the end of the function (lines 229-248, 112-127); delete's guard
\* is a temporary of its statement (line 134)
holds_guard(op, at) ==
    IF op = "delete_ratelimit_state" THEN at = "clear"
    ELSE at \in {"open", "inc", "encrypt"}

\* thread t moves on to the access at
Goto(t, at) ==
    /\ pc' = [pc EXCEPT ![t] = at]
    /\ cell_lock' =
           [u \in Uuids |->
               IF u # loc[t].uuid THEN cell_lock[u]
               ELSE IF holds_guard(loc[t].op, at) THEN t
               ELSE IF cell_lock[u] = t THEN 0
               ELSE cell_lock[u]]

SetCell(uuid, cell) ==
    RATELIMIT_STATE_MAP' =
        [RATELIMIT_STATE_MAP EXCEPT !.hash_map =
            [k \in DOMAIN RATELIMIT_STATE_MAP.hash_map |->
                IF k = uuid THEN cell ELSE RATELIMIT_STATE_MAP.hash_map[k]]]

\* the function of thread t returns with status
Returns(t, status) ==
    /\ last' = Last(loc[t].op, status, 0, loc[t].uuid, 0, <<>>, NoSlab,
                    NoSlab, 0)
    /\ outcomes' =
           IF /\ outcomes.kept
              /\ loc[t].op # "delete_ratelimit_state"
              /\ ~all_zero(loc[t].slab.ct)
           THEN [outcomes EXCEPT !.returned =
                    @ (+) SetToBag({[uuid |-> loc[t].uuid,
                                     slab |-> loc[t].slab,
                                     status |-> status]})]
           ELSE outcomes
    /\ loc' = [loc EXCEPT ![t] = IdleLoc]
    /\ Goto(t, "idle")

\* a thread enters one of the operations (a server reads the caller's slab
\* here, lines 206-224), and RatelimitStateMap::get takes the upgradeable
\* read lock of hash_map (line 399)
Call(t, op, uuid, slab, phones) ==
    /\ pc[t] = "idle"
    /\ map_lock = 0
    /\ map_lock' = t
    /\ loc' = [loc EXCEPT ![t] =
                  [IdleLoc EXCEPT !.op = op, !.uuid = uuid, !.slab = slab,
                                  !.phones = IF op = "handle_call"
                                             THEN [i \in 1..Len(phones) |->
                                                      hash_query_phone(phones[i])]
                                             ELSE phones]]
    /\ pc' = [pc EXCEPT ![t] = "insert"]
    /\ UNCHANGED <<RATELIMIT_STATE_MAP, next_key, cell_lock>>
    /\ UNCHANGED <<revealed, replies, lookups, submitted, current, stale, last>>
    /\ UNCHANGED serverVars
    /\ UNCHANGED <<hashing, overflow_checks, outcomes>>

\* get handing the cell back with hash_map's lock still held
MapInsert_keeping_the_lock(t) ==
    /\ pc[t] = "insert"
    /\ RATELIMIT_STATE_MAP' =
           RatelimitStateMap_get(global(RATELIMIT_STATE_MAP, 0), loc[t].uuid)
    /\ pc' = [pc EXCEPT ![t] = "lock"]
    /\ UNCHANGED <<next_key, loc, map_lock, cell_lock>>
    /\ UNCHANGED <<revealed, replies, lookups, submitted, current, stale, last>>
    /\ UNCHANGED serverVars
    /\ UNCHANGED <<hashing, overflow_checks, outcomes>>

\* lines 400-409: the cell is found or inserted, and the lock released
MapInsert(t) ==
    /\ pc[t] = "insert"
    /\ RATELIMIT_STATE_MAP' =
           RatelimitStateMap_get(global(RATELIMIT_STATE_MAP, 0), loc[t].uuid)
    /\ map_lock' = 0
    /\ pc' = [pc EXCEPT ![t] = "lock"]
    /\ UNCHANGED <<next_key, loc, cell_lock>>
    /\ UNCHANGED <<revealed, replies, lookups, submitted, current, stale, last>>
    /\ UNCHANGED serverVars
    /\ UNCHANGED <<hashing, overflow_checks, outcomes>>

\* lines 229, 112, 134: Mutex::lock returns once no thread holds the mutex
Lock(t) ==
    /\ pc[t] = "lock"
    /\ cell_lock[loc[t].uuid] = 0
    /\ Goto(t, IF loc[t].op = "delete_ratelimit_state" THEN "clear" ELSE "open")
    /\ UNCHANGED <<RATELIMIT_STATE_MAP, next_key, loc, map_lock>>
    /\ UNCHANGED <<revealed, replies, lookups, submitted, current, stale, last>>
    /\ UNCHANGED serverVars
    /\ UNCHANGED <<hashing, overflow_checks, outcomes>>

\* lines 231, 432-443: the default state is installed in an empty cell, and
\* the slab is decrypted under the cell's nonce or initialised
Open(t) ==
    /\ pc[t] = "open"
    /\ LET cell   == CellOf(RATELIMIT_STATE_MAP, loc[t].uuid)
           self   == get_or_insert_with(cell, next_key)
           opened == update_open(self, loc[t].slab.size - AES_GCM_MAC_LEN,
                                 loc[t].slab.ct, loc[t].rand)
       IN  /\ keys_drawn(cell, next_key) <= MaxKeys
           /\ next_key' = keys_drawn(cell, next_key)
           /\ SetCell(loc[t].uuid, self)
           /\ IF opened.status = SGX_SUCCESS
              THEN /\ loc' = [loc EXCEPT ![t].self = self, ![t].pt = opened.pt]
                   /\ Goto(t, "inc")
                   /\ UNCHANGED <<last, outcomes>>
              ELSE Returns(t, opened.status)
    /\ UNCHANGED map_lock
    /\ UNCHANGED <<revealed, replies, lookups, submitted, current, stale>>
    /\ UNCHANGED serverVars
    /\ UNCHANGED <<hashing, overflow_checks>>

\* lines 446-449: the nonce of the cell is incremented, and the phones are
\* added to the plaintext
Inc(t) ==
    /\ pc[t] = "inc"
    /\ LET cell  == CellOf(RATELIMIT_STATE_MAP, loc[t].uuid)
           added == RatelimitStateData_add(
                        loc[t].pt, loc[t].slab.size - AES_GCM_MAC_LEN,
                        loc[t].phones)
       IN  IF encrypt_nonce(cell.nonce) = 0
           THEN /\ Returns(t, CDS_ERROR_INVALID_RATE_LIMIT_STATE)
                /\ UNCHANGED <<RATELIMIT_STATE_MAP, current, stale>>
           ELSE /\ encrypt_nonce(cell.nonce) <= MaxNonce
                /\ SetCell(loc[t].uuid,
                           [cell EXCEPT !.nonce = encrypt_nonce(cell.nonce)])
                /\ IF added.status = SGX_SUCCESS
                   THEN /\ loc' = [loc EXCEPT ![t].pt = added.pt]
                        /\ Goto(t, "encrypt")
                        /\ UNCHANGED <<current, stale, last, outcomes>>
                   ELSE /\ Returns(t, added.status)
                        /\ current' = [current EXCEPT ![loc[t].uuid] = NoSlab]
                        /\ stale' = stale
    /\ UNCHANGED <<next_key, map_lock>>
    /\ UNCHANGED <<revealed, replies, lookups, submitted>>
    /\ UNCHANGED serverVars
    /\ UNCHANGED <<hashing, overflow_checks>>

\* lines 451-452, 240-248, 124-127: the plaintext is encrypted under the
\* cell's key and the IV of the cell's nonce, and written to the slab
Encrypt(t) ==
    /\ pc[t] = "encrypt"
    /\ LET cell == CellOf(RATELIMIT_STATE_MAP, loc[t].uuid)
           out  == [size |-> loc[t].slab.size,
                    ct |-> AesGcmEncrypt(cell.key, get_iv(cell.nonce),
                                         loc[t].pt)]
       IN  /\ revealed' = Reveal(out)
           /\ current' = [current EXCEPT ![loc[t].uuid] = out]
           /\ stale' = stale
           /\ Returns(t, SGX_SUCCESS)
    /\ UNCHANGED <<RATELIMIT_STATE_MAP, next_key, map_lock>>
    /\ UNCHANGED <<replies, lookups, submitted>>
    /\ UNCHANGED serverVars
    /\ UNCHANGED <<hashing, overflow_checks>>

\* line 134: the cell is set to None
Clear(t) ==
    /\ pc[t] = "clear"
    /\ SetCell(loc[t].uuid, None)
    /\ current' = [current EXCEPT ![loc[t].uuid] = NoSlab]
    /\ stale' = stale
    /\ Returns(t, SGX_SUCCESS)
    /\ UNCHANGED <<next_key, map_lock>>
    /\ UNCHANGED <<revealed, replies, lookups, submitted>>
    /\ UNCHANGED serverVars
    /\ UNCHANGED <<hashing, overflow_checks>>

\* the slabs presented on the contended UUID: an all-zero state, or the one
\* the cell stands by
ConcSlabs(op, uuid) ==
    IF op = "delete_ratelimit_state" THEN {NoSlab}
    ELSE {ZeroSlab(SlabSize), current[uuid]} \ {NoSlab}

InitConc == InitWith(init(MaxCapacity, 1))

\* the operations of thread t: the odd threads serve a server instance
\* (handle_call), the even ones are the host's calls of the free functions
ThreadOps(t) ==
    IF t % 2 = 1 THEN {"handle_call"} ELSE RlOps \ {"handle_call"}

NextConc ==
    \E t \in 1..MaxThreads :
        \/ \E op \in ThreadOps(t), uuid \in {1} :
               \E slab \in ConcSlabs(op, uuid) : Call(t, op, uuid, slab, <<1>>)
        \/ MapInsert(t)
        \/ Lock(t)
        \/ Open(t)
        \/ Inc(t)
        \/ Encrypt(t)
        \/ Clear(t)

SpecConc == InitConc /\ [][NextConc]_vars

----------------------------------------------------------------------------
(* The locks on their own: threads that run operation after operation for   *)
(* ever on the cells of two UUIDs, with forged states, so that an update    *)
(* returns from its decryption and no counter of the cell grows.  Here a    *)
(* thread asks for hash_map's lock in a step of its own (pc = "get").  The  *)
(* threads keep running: each step a thread can take for good is taken.     *)

\* the updates under way: each may draw a key for an emptied cell
UpdatesUnderWay ==
    {t \in 1..MaxThreads :
        pc[t] # "idle" /\ loc[t].op # "delete_ratelimit_state"}

\* a thread enters one of the operations and calls RatelimitStateMap::get
Enter(t, op, uuid, slab) ==
    /\ pc[t] = "idle"
    /\ op # "delete_ratelimit_state" =>
           next_key + Cardinality(UpdatesUnderWay) < MaxKeys
    /\ loc' = [loc EXCEPT ![t] =
                  [IdleLoc EXCEPT !.op = op, !.uuid = uuid, !.slab = slab]]
    /\ pc' = [pc EXCEPT ![t] = "get"]
    /\ UNCHANGED <<RATELIMIT_STATE_MAP, next_key, map_lock, cell_lock>>
    /\ UNCHANGED <<revealed, replies, lookups, submitted, current, stale, last>>
    /\ UNCHANGED serverVars
    /\ UNCHANGED <<hashing, overflow_checks, outcomes>>

\* line 399: upgradeable_read returns once no thread holds hash_map's lock
UpgradeableRead(t) ==
    /\ pc[t] = "get"
    /\ map_lock = 0
    /\ map_lock' = t
    /\ pc' = [pc EXCEPT ![t] = "insert"]
    /\ UNCHANGED <<RATELIMIT_STATE_MAP, next_key, loc, cell_lock>>
    /\ UNCHANGED <<revealed, replies, lookups, submitted, current, stale, last>>
    /\ UNCHANGED serverVars
    /\ UNCHANGED <<hashing, overflow_checks, outcomes>>

\* the steps of thread t inside an operation
Running(t) ==
    \/ UpgradeableRead(t)
    \/ MapInsert(t)
    \/ Lock(t)
    \/ Open(t)
    \/ Clear(t)

NextLocks ==
    \E t \in 1..MaxThreads :
        \/ \E op \in ThreadOps(t), uuid \in Uuids :
               Enter(t, op, uuid,
                     IF op = "delete_ratelimit_state" THEN NoSlab
                     ELSE JunkSlab(SlabSize))
        \/ Running(t)

SpecLocks ==
    /\ InitConc
    /\ [][NextLocks]_vars
    /\ \A t \in 1..MaxThreads : WF_vars(Running(t))

----------------------------------------------------------------------------
(* Properties of the batching server (checked under Spec) *)

\* the j-th 16-byte entry of a reply
ReplyEntry(data, j) == SubSeq(data, (j - 1) * BYTES_PER_UUID + 1, j * BYTES_PER_UUID)

\* the 16 bytes of the UUID the directory holds for a phone, or of zero
DirectoryAnswer(dir, phone) ==
    LET hits == {k \in 1..Len(dir.in_phones) : dir.in_phones[k] = phone}
    IN  [b \in 1..BYTES_PER_UUID |->
            IF b = 1 /\ hits # {}
            THEN dir.in_uuids[CHOOSE k \in hits : TRUE] ELSE 0]

TerminatedOk == phase = "TERMINATED" /\ last.status = SGX_SUCCESS

\* C1: after a terminate that returns Ok every parked request has received
\* exactly one reply, of request_phone_count * 16 bytes, and the replies were
\* sent in the order in which the requests were enqueued.
C1_RepliesInOrder ==
    TerminatedOk =>
        /\ Len(replies) = Len(requests)
        /\ \A i \in 1..Len(requests) :
              /\ replies[i].to = requests[i].from
              /\ replies[i].ok
              /\ Len(replies[i].data)
                     = requests[i].request_phone_count * BYTES_PER_UUID
              /\ Cardinality({j \in 1..Len(replies) :
                                  replies[j].to = requests[i].from}) = 1

C1_Witness ==
    /\ TerminatedOk
    /\ Len(requests) >= 3
    /\ \E i, j \in 1..Len(requests) :
           requests[i].request_phone_count # requests[j].request_phone_count

\* C2: every reply sent by terminate holds, entry by entry and in the order
\* the request submitted its phones, the directory's UUID for that phone or
\* the zero UUID when the directory does not hold it, also when the batch is
\* looked up in several chunks.
C2_ReplyHoldsOwnResults ==
    phase = "TERMINATED" =>
        \A i \in 1..Len(replies) :
            /\ i <= Len(submitted)
            /\ Len(replies[i].data) = Len(submitted[i]) * BYTES_PER_UUID
            /\ lookups # <<>>
            /\ \A j \in 1..Len(submitted[i]) :
                   ReplyEntry(replies[i].data, j)
                       = DirectoryAnswer(lookups[1], submitted[i][j])

\* a batch of two chunks whose second request straddles them, with a hit
\* and a miss in its reply
C2_Witness ==
    /\ TerminatedOk
    /\ Len(lookups) >= 2
    /\ Len(replies) >= 2
    /\ requests[1].request_phone_count = 1
    /\ requests[2].request_phone_count = 2
    /\ ReplyEntry(replies[2].data, 1)[1] = 0
    /\ ReplyEntry(replies[2].data, 2)[1] # 0

\* C3: between init and terminate the counts of the parked requests add up
\* to query_phones.len(), which never passes the capacity fixed by init.
C3_AccumulatorInvariant ==
    phase = "ACCEPTING" =>
        /\ SumCounts(requests) = Len(query_phones)
        /\ Len(query_phones) <= capacity

C3_Witness ==
    /\ phase = "ACCEPTING"
    /\ Len(requests) >= 2
    /\ Len(query_phones) = capacity
    /\ last.op = "handle_call"
    /\ last.status = SGX_ERROR_INVALID_PARAMETER

\* C4: a handle_call changes the accumulator and the queue only when it
\* returns Ok without a rate-limit state, and then appends the
\* query_phone_count phones of the query and one PendingRequest; every
\* failing and every rate-limited handle_call leaves both unchanged.
C4_HandleCallFrame ==
    [][last'.op = "handle_call" =>
          IF last'.status = SGX_SUCCESS /\ last'.uuid = 0
          THEN /\ query_phones' = query_phones \o last'.phones
               /\ Len(last'.phones) = last'.count
               /\ requests' = Append(requests,
                                  [from |-> last'.from,
                                   request_phone_count |-> last'.count])
          ELSE /\ query_phones' = query_phones
               /\ requests' = requests]_vars

\* a rate-limited call succeeded while callers were parked
C4_Witness ==
    /\ last.op = "handle_call"
    /\ last.uuid # 0
    /\ last.status = SGX_SUCCESS
    /\ Len(requests) >= 2

----------------------------------------------------------------------------
(* Properties of the rate-limit state (checked under SpecRL) *)

\* the step is a rate-limit update: a rate-limited handle_call or a call of
\* the free function
RlStep ==
    \/ last'.op = "update_ratelimit_state"
    \/ last'.op = "handle_call" /\ last'.uuid # 0

\* the step got as far as the UUID's cell
ReachesCell ==
    /\ last'.uuid # 0
    /\ last'.slab_in.size >= AES_GCM_MAC_LEN
    /\ last'.op = "handle_call" => ratelimit_state_map

\* the phones the step adds to the set: handle_call hashes them first
PhonesAdded ==
    IF last'.op = "handle_call"
    THEN {hash_query_phone(last'.phones[i]) : i \in 1..Len(last'.phones)}
    ELSE Range(last'.phones)

CellBefore == CellOf(RATELIMIT_STATE_MAP, last'.uuid)
CellAfter == CellOf(RATELIMIT_STATE_MAP', last'.uuid)

LastWasRlUpdate ==
    \/ last.op = "update_ratelimit_state"
    \/ last.op = "handle_call" /\ last.uuid # 0

\* C5: every ciphertext an update hands back is encrypted under the cell's
\* key and a nonce strictly greater than the nonce of every ciphertext handed
\* back earlier under that key, whatever updates, failed or not, came before.
C5_NonceNeverReused ==
    [][RlStep /\ last'.status = SGX_SUCCESS =>
          LET ct == last'.slab_out.ct
          IN  /\ ct.kind = "enc"
              /\ ct.key = CellAfter.key
              /\ ct.iv = get_iv(IvNonce(ct.iv))
              /\ IvNonce(ct.iv) > Revealed(ct.key)]_vars

\* the second ciphertext under the second key of a cell
C5_Witness ==
    /\ LastWasRlUpdate
    /\ last.status = SGX_SUCCESS
    /\ last.slab_out.ct.key = MaxKeys
    /\ IvNonce(last.slab_out.ct.iv) = MaxNonce
    /\ Revealed(1) >= 2

\* C7: an update fails with CDS_ERROR_RATE_LIMIT_EXCEEDED exactly when it
\* reaches add and the set, with the call's phones added, holds at least
\* size_limit entries; it then leaves the caller's slab as it was and sends
\* no reply; every plaintext that is handed back holds fewer entries than its
\* size limit.
C7_RateLimitExceeded ==
    [][RlStep =>
          LET self     == get_or_insert_with(CellBefore, next_key)
              data_len == last'.slab_in.size - AES_GCM_MAC_LEN
              opened   == update_open(self, data_len, last'.slab_in.ct,
                                      last'.rand)
              reached  == /\ ReachesCell
                          /\ opened.status = SGX_SUCCESS
                          /\ self.nonce < U32_MAX
              size     == Cardinality(opened.pt.slots \cup PhonesAdded)
          IN  /\ last'.status = CDS_ERROR_RATE_LIMIT_EXCEEDED
                     <=> (reached /\ size >= opened.pt.size_limit)
              /\ last'.status = CDS_ERROR_RATE_LIMIT_EXCEEDED =>
                     /\ last'.slab_out = last'.slab_in
                     /\ revealed' = revealed
                     /\ replies' = replies
                     /\ requests' = requests
              /\ last'.status = SGX_SUCCESS =>
                     /\ last'.slab_out.ct.pt.slots = opened.pt.slots \cup PhonesAdded
                     /\ Cardinality(last'.slab_out.ct.pt.slots)
                            < last'.slab_out.ct.pt.size_limit]_vars

\* a ciphertext the cell stood by was presented and the limit was reached
C7_Witness ==
    /\ LastWasRlUpdate
    /\ last.status = CDS_ERROR_RATE_LIMIT_EXCEEDED
    /\ last.slab_in.ct.kind = "enc"
    /\ last.slab_out = last.slab_in
    /\ Cardinality(last.slab_in.ct.pt.slots) + 1 = last.slab_in.ct.pt.size_limit

\* C8 as stated: a rate-limit update that fails with
\* CDS_ERROR_INVALID_RATE_LIMIT_STATE or CDS_ERROR_RATE_LIMIT_EXCEEDED leaves
\* the nonce and the key of the UUID's cell as they were.
C8_FailedUpdateKeepsCell ==
    [][/\ RlStep
       /\ last'.status \in {CDS_ERROR_INVALID_RATE_LIMIT_STATE,
                            CDS_ERROR_RATE_LIMIT_EXCEEDED}
       /\ CellBefore.some
       => CellAfter = CellBefore]_vars

\* C8 (amended): a rate-limit update that fails before the nonce is
\* incremented leaves a cell that holds a state with the same nonce and key,
\* so that the ciphertext the cell stood by is still the one it stands by,
\* and leaves a cell without a state empty or with a default state; one that
\* fails with CDS_ERROR_RATE_LIMIT_EXCEEDED keeps the key and has advanced
\* the nonce by one, so that the cell stands by no ciphertext any more.  No
\* failed update changes the cell of another UUID.
C8_FailedUpdateEffect ==
    [][RlStep /\ last'.status # SGX_SUCCESS =>
          /\ \A u \in Uuids \ {last'.uuid} :
                 CellOf(RATELIMIT_STATE_MAP', u) = CellOf(RATELIMIT_STATE_MAP, u)
          /\ IF last'.status = CDS_ERROR_RATE_LIMIT_EXCEEDED
             THEN LET self == get_or_insert_with(CellBefore, next_key)
                  IN  /\ CellAfter.some
                      /\ CellAfter.key = self.key
                      /\ CellAfter.nonce = self.nonce + 1
                      /\ current'[last'.uuid] = NoSlab
             ELSE IF CellBefore.some
             THEN CellAfter = CellBefore /\ current' = current
             ELSE CellAfter \in {None, RatelimitState_default(next_key)}]_vars

\* the limit was reached with the ciphertext the cell stood by: the nonce
\* has moved past it
C8_Witness ==
    /\ LastWasRlUpdate
    /\ last.status = CDS_ERROR_RATE_LIMIT_EXCEEDED
    /\ last.slab_in.ct.kind = "enc"
    /\ LET cell == CellOf(RATELIMIT_STATE_MAP, last.uuid)
       IN  /\ cell.some
           /\ cell.key = last.slab_in.ct.key
           /\ cell.nonce = IvNonce(last.slab_in.ct.iv) + 1
    /\ current[last.uuid] = NoSlab

\* C9: the slab a successful update returned, presented to the next update
\* of the cell, decrypts under the cell's key and the IV of the cell's nonce
\* to the plaintext the earlier update encrypted: the next update fails
\* neither on the MAC nor on the nonce, and continues from that plaintext.
C9_OutputDecryptsNext ==
    [][/\ RlStep
       /\ ReachesCell
       /\ current[last'.uuid] # NoSlab
       /\ last'.slab_in = current[last'.uuid]
       => LET pt == last'.slab_in.ct.pt
          IN  /\ CellBefore.some
              /\ AesGcmDecrypt(CellBefore.key, get_iv(CellBefore.nonce),
                               last'.slab_in.ct) = [ok |-> TRUE, pt |-> pt]
              /\ last'.status \in {SGX_SUCCESS, CDS_ERROR_RATE_LIMIT_EXCEEDED}
              /\ last'.status = SGX_SUCCESS =>
                     last'.slab_out.ct.pt =
                         [size_limit |-> pt.size_limit,
                          slots |-> pt.slots \cup PhonesAdded]
              /\ last'.status = CDS_ERROR_RATE_LIMIT_EXCEEDED =>
                     Cardinality(pt.slots \cup PhonesAdded) >= pt.size_limit]_vars

\* the second of two successful updates added a phone to the set the first
\* one encrypted
C9_Witness ==
    /\ LastWasRlUpdate
    /\ last.status = SGX_SUCCESS
    /\ last.slab_in.ct.kind = "enc"
    /\ last.slab_out.ct.key = last.slab_in.ct.key
    /\ IvNonce(last.slab_out.ct.iv) = IvNonce(last.slab_in.ct.iv) + 1
    /\ Cardinality(last.slab_out.ct.pt.slots)
           > Cardinality(last.slab_in.ct.pt.slots)

\* C10: a slab that an update of the cell returned earlier, presented after
\* the cell's nonce has moved on, is rejected with
\* CDS_ERROR_INVALID_RATE_LIMIT_STATE and is left as it was.
C10_ReplayRejected ==
    [][/\ RlStep
       /\ ReachesCell
       /\ stale[last'.uuid] # NoSlab
       /\ last'.slab_in = stale[last'.uuid]
       /\ CellBefore.some
       /\ CellBefore.key = last'.slab_in.ct.key
       => /\ IvNonce(last'.slab_in.ct.iv) < CellBefore.nonce
          /\ last'.status = CDS_ERROR_INVALID_RATE_LIMIT_STATE
          /\ last'.slab_out = last'.slab_in
          /\ revealed' = revealed]_vars

\* the ciphertext of nonce 2 was presented to its cell at nonce 3
C10_Witness ==
    /\ LastWasRlUpdate
    /\ last.status = CDS_ERROR_INVALID_RATE_LIMIT_STATE
    /\ last.slab_in.ct.kind = "enc"
    /\ last.slab_in = stale[last.uuid]
    /\ LET cell == CellOf(RATELIMIT_STATE_MAP, last.uuid)
       IN  /\ cell.some
           /\ cell.key = last.slab_in.ct.key
           /\ cell.nonce > IvNonce(last.slab_in.ct.iv)
           /\ current[last.uuid] # NoSlab

----------------------------------------------------------------------------
(* Claims on the interleaved updates and deletes (SpecConc)                *)

\* C6: in every interleaving of updates (handle_call, the free function
\* update_ratelimit_state) and deletes on one UUID, at most one thread at a
\* time is between the nonce read of the decryption and the encryption (or
\* at delete's assignment), and no other thread touches the cell in between:
\* after the decryption the cell is the state the thread decrypted under,
\* and at the encryption it holds the same key and that nonce plus one
C6_CellUpdatesExclusive ==
    /\ \A t1, t2 \in 1..MaxThreads :
           (/\ t1 # t2
            /\ pc[t1] \in CriticalSection
            /\ pc[t2] \in CriticalSection) => loc[t1].uuid # loc[t2].uuid
    /\ \A t \in 1..MaxThreads :
           LET cell == CellOf(RATELIMIT_STATE_MAP, loc[t].uuid)
           IN  /\ pc[t] = "inc" => cell = loc[t].self
               /\ pc[t] = "encrypt" =>
                      /\ cell # None
                      /\ cell.key = loc[t].self.key
                      /\ cell.nonce = loc[t].self.nonce + 1

\* a thread is about to encrypt under an incremented nonce above the first
\* while another thread waits for the mutex of the same cell
C6_Witness ==
    \E t1, t2 \in 1..MaxThreads :
        /\ t1 # t2
        /\ pc[t1] = "encrypt"
        /\ pc[t2] = "lock"
        /\ loc[t1].uuid = loc[t2].uuid
        /\ CellOf(RATELIMIT_STATE_MAP, loc[t1].uuid).nonce > 2

----------------------------------------------------------------------------
(* Claims on the IVs revealed for a UUID (SpecRL)                          *)

\* the ciphertext revealed last for the UUID (NoSlab: none yet)
LastRevealed(uuid) ==
    IF current[uuid] # NoSlab THEN current[uuid] ELSE stale[uuid]

----------------------------------------------------------------------------
(* Claims on the first update of a cell (SpecFresh)                        *)

\* the step is update_ratelimit_state with an all-zero state and the one
\* phone 0x1234 on a UUID whose cell does not exist or holds no state, and
\* RdRand delivers
FreshSinglePhone ==
    /\ last'.op = "update_ratelimit_state"
    /\ last'.uuid # 0
    /\ ~CellBefore.some
    /\ all_zero(last'.slab_in.ct)
    /\ last'.phones = <<4660>>
    /\ last'.rand >= 0

\* C12 as stated: on a cell that did not exist, update_ratelimit_state with
\* a state of 52 zero bytes and the phone 0x1234 succeeds, the size limit L
\* of the result is 2 <= L < 4, the slots hold one entry, and the MAC is the
\* one under the cell's fresh key and the IV of 1.
C12_FreshCellOf52Bytes ==
    [][FreshSinglePhone /\ last'.slab_in.size = SmallSlabSize =>
          LET ct == last'.slab_out.ct
          IN  /\ last'.status = SGX_SUCCESS
              /\ ct.pt.size_limit \in 2..3
              /\ Cardinality(ct.pt.slots) = 1
              /\ AesGcmDecrypt(next_key + 1, get_iv(1), ct).ok]_vars

\* C12 (amended): a state of 52 zero bytes holds 36 bytes of data, 3
\* effective slots and the size limit 1, so the update with one phone fails
\* with CDS_ERROR_RATE_LIMIT_EXCEEDED, writes nothing, and leaves the new
\* cell with a fresh key and the nonce 2; a state of 68 zero bytes (52 bytes
\* of data and the MAC) succeeds, with a size limit L, 2 <= L < 4, the one
\* phone in the slots, and the MAC under the cell's fresh key and the IV of
\* the incremented nonce, 02 00 00 00.
C12_FreshCellSinglePhone ==
    [][FreshSinglePhone =>
          LET ct == last'.slab_out.ct
          IN  /\ CellAfter = [some |-> TRUE, nonce |-> 2, key |-> next_key + 1]
              /\ Revealed(next_key + 1) = 0
              /\ IF last'.slab_in.size = SmallSlabSize
                 THEN /\ last'.status = CDS_ERROR_RATE_LIMIT_EXCEEDED
                      /\ last'.slab_out = last'.slab_in
                      /\ revealed' = revealed
                      /\ slot_count(SmallSlabSize - AES_GCM_MAC_LEN) = 3
                 ELSE /\ last'.slab_in.size = SlabSize
                      /\ last'.status = SGX_SUCCESS
                      /\ ct.pt.size_limit \in 2..3
                      /\ ct.pt.slots = {4660}
                      /\ ct.iv = get_iv(2)
                      /\ AesGcmDecrypt(CellAfter.key, get_iv(CellAfter.nonce),
                                       ct).ok]_vars

\* the first update of a cell, with 52 zero bytes and the one phone, met the
\* size limit 1
C12_Witness ==
    /\ last.op = "update_ratelimit_state"
    /\ last.slab_in = ZeroSlab(SmallSlabSize)
    /\ last.phones = <<4660>>
    /\ last.status = CDS_ERROR_RATE_LIMIT_EXCEEDED
    /\ CellOf(RATELIMIT_STATE_MAP, last.uuid) =
           [some |-> TRUE, nonce |-> 2, key |-> next_key]
    /\ current[last.uuid] = NoSlab

----------------------------------------------------------------------------
(* Claims on the end of the nonces (SpecWrap)                              *)

\* an update step that finds the nonce of the UUID's cell at u32::MAX
AtLastNonce ==
    /\ RlStep
    /\ ReachesCell
    /\ CellBefore.some
    /\ CellBefore.nonce = U32_MAX

\* the nonce of every state lies in 1..u32::MAX, a fresh state has nonce 1,
\* and an update never lowers the nonce of a state
NonceInRange ==
    /\ \A u \in Uuids :
           CellOf(RATELIMIT_STATE_MAP', u).some =>
               CellOf(RATELIMIT_STATE_MAP', u).nonce \in 1..U32_MAX
    /\ RlStep /\ CellBefore.some =>
           /\ CellAfter.some
           /\ CellAfter.key = CellBefore.key
           /\ CellAfter.nonce >= CellBefore.nonce
    /\ RlStep /\ ~CellBefore.some /\ CellAfter.some =>
           /\ CellAfter.nonce \in {1, 2}
           /\ CellAfter.key = next_key + 1

\* C13 as stated: the nonce of a cell starts at 1, stays in 1..u32::MAX and
\* never wraps; every update on a cell whose nonce is u32::MAX fails with
\* CDS_ERROR_INVALID_RATE_LIMIT_STATE, leaves the nonce at u32::MAX and
\* writes no ciphertext, until the cell is deleted.
C13_NonceExhausted ==
    [][/\ NonceInRange
       /\ AtLastNonce =>
              /\ last'.status = CDS_ERROR_INVALID_RATE_LIMIT_STATE
              /\ CellAfter = CellBefore
              /\ last'.slab_out = last'.slab_in
              /\ revealed' = revealed]_vars

\* C13 (amended): as stated, except that an update on a cell whose nonce is
\* u32::MAX that presents an all-zero state and finds RdRand failing returns
\* SGX_ERROR_UNEXPECTED; every other one returns
\* CDS_ERROR_INVALID_RATE_LIMIT_STATE.  In both cases the nonce stays at
\* u32::MAX and no ciphertext is written.
C13_NonceNeverWraps ==
    [][/\ NonceInRange
       /\ AtLastNonce =>
              /\ last'.status =
                     IF all_zero(last'.slab_in.ct) /\ last'.rand < 0
                     THEN SGX_ERROR_UNEXPECTED
                     ELSE CDS_ERROR_INVALID_RATE_LIMIT_STATE
              /\ CellAfter = CellBefore
              /\ last'.slab_out = last'.slab_in
              /\ revealed' = revealed]_vars

\* the ciphertext of the nonce u32::MAX was presented to its cell and
\* refused
C13_Witness ==
    /\ LastWasRlUpdate
    /\ last.status = CDS_ERROR_INVALID_RATE_LIMIT_STATE
    /\ last.slab_in = current[last.uuid]
    /\ last.slab_in.ct.kind = "enc"
    /\ IvNonce(last.slab_in.ct.iv) = U32_MAX
    /\ CellOf(RATELIMIT_STATE_MAP, last.uuid).nonce = U32_MAX
    /\ Revealed(last.slab_in.ct.key) = U32_MAX

----------------------------------------------------------------------------
(* Claims on RatelimitStateMap::get (SpecGet)                              *)

\* the map holds one cell per UUID, no cell under two UUIDs, and every
\* handle a thread got is the one of the entry of its UUID
OneCellPerUuid(map, at, held) ==
    /\ DOMAIN map.arc = DOMAIN map.hash_map
    /\ map.arcs = Cardinality(DOMAIN map.hash_map)
    /\ \A u1, u2 \in DOMAIN map.arc : u1 # u2 => map.arc[u1] # map.arc[u2]
    /\ \A t \in 1..MaxThreads :
           at[t] = "got" =>
               /\ held[t].uuid \in DOMAIN map.arc
               /\ held[t].cell = map.arc[held[t].uuid]
    /\ \A t1, t2 \in 1..MaxThreads :
           at[t1] = "got" /\ at[t2] = "got" =>
               (held[t1].uuid = held[t2].uuid <=> held[t1].cell = held[t2].cell)

\* C14: in every interleaving of get calls the map holds at most one cell
\* per UUID: the gets of one UUID, racing or not, return the same cell, gets
\* of different UUIDs different cells, an entry once made keeps its cell, a
\* cell made by get starts as None, and every caller of global has the one
\* map, with the capacity of the first caller.
C14_OneCellPerUuid ==
    [][/\ OneCellPerUuid(RATELIMIT_STATE_MAP', pc', loc')
       /\ \A u \in DOMAIN RATELIMIT_STATE_MAP.hash_map :
              /\ u \in DOMAIN RATELIMIT_STATE_MAP'.hash_map
              /\ RATELIMIT_STATE_MAP'.arc[u] = RATELIMIT_STATE_MAP.arc[u]
       /\ pc' # pc =>
              \A u \in DOMAIN RATELIMIT_STATE_MAP'.hash_map :
                  IF u \in DOMAIN RATELIMIT_STATE_MAP.hash_map
                  THEN RATELIMIT_STATE_MAP'.hash_map[u]
                           = RATELIMIT_STATE_MAP.hash_map[u]
                  ELSE RATELIMIT_STATE_MAP'.hash_map[u] = None
       /\ RATELIMIT_STATE_MAP.once =>
              /\ RATELIMIT_STATE_MAP'.once
              /\ RATELIMIT_STATE_MAP'.capacity = RATELIMIT_STATE_MAP.capacity
      ]_vars

\* two threads hold the cell of one UUID, which has been updated since it
\* was made, while the map holds the cell of another UUID as well
C14_Witness ==
    /\ pc[1] = "got"
    /\ pc[2] = "got"
    /\ loc[1].uuid = loc[2].uuid
    /\ loc[1].cell = loc[2].cell
    /\ CellOf(RATELIMIT_STATE_MAP, loc[1].uuid).some
    /\ RATELIMIT_STATE_MAP.arcs = Cardinality(Uuids)

----------------------------------------------------------------------------
(* Claims on delete_ratelimit_state (SpecRL)                               *)

\* C15: delete_ratelimit_state with a non-zero UUID leaves the UUID's entry
\* in the map, with the cell it had and None in it, and touches nothing
\* else.  The next update that reaches the cell installs a state with nonce
\* 1 and a key never used before: an all-zero state is initialised with a
\* newly drawn size limit (when RdRand delivers; the call fails with
\* SGX_ERROR_UNEXPECTED when it does not), and every ciphertext revealed
\* under an earlier key is rejected with CDS_ERROR_INVALID_RATE_LIMIT_STATE
\* and left as it was.  delete and update with the all-zero UUID fail with
\* SGX_ERROR_INVALID_PARAMETER and change neither the map nor a cell.
C15_DeleteResetsCell ==
    [][/\ last'.op = "delete_ratelimit_state" /\ last'.uuid # 0 =>
              /\ last'.status = SGX_SUCCESS
              /\ last'.uuid \in DOMAIN RATELIMIT_STATE_MAP'.hash_map
              /\ CellAfter = None
              /\ next_key' = next_key
              /\ revealed' = revealed
              /\ \A u \in DOMAIN RATELIMIT_STATE_MAP.hash_map :
                     /\ RATELIMIT_STATE_MAP'.arc[u] = RATELIMIT_STATE_MAP.arc[u]
                     /\ u # last'.uuid =>
                            CellOf(RATELIMIT_STATE_MAP', u)
                                = CellOf(RATELIMIT_STATE_MAP, u)
       /\ RlStep /\ ReachesCell /\ ~CellBefore.some =>
              /\ CellAfter.some
              /\ CellAfter.key = next_key + 1
              /\ next_key' = next_key + 1
              /\ Revealed(CellAfter.key) = 0
              /\ all_zero(last'.slab_in.ct) =>
                     LET data_len == last'.slab_in.size - AES_GCM_MAC_LEN
                         half     == slot_count(data_len) \div 2
                         limit    == half + (last'.rand % half)
                     IN  IF last'.rand < 0
                         THEN /\ last'.status = SGX_ERROR_UNEXPECTED
                              /\ CellAfter.nonce = 1
                         ELSE /\ CellAfter.nonce = 2
                              /\ last'.status = SGX_SUCCESS <=>
                                     Cardinality(PhonesAdded) < limit
                              /\ last'.status = SGX_SUCCESS =>
                                     /\ last'.slab_out.ct.key = CellAfter.key
                                     /\ last'.slab_out.ct.iv = get_iv(2)
                                     /\ last'.slab_out.ct.pt =
                                            [size_limit |-> limit,
                                             slots |-> PhonesAdded]
       /\ (/\ RlStep
           /\ ReachesCell
           /\ last'.slab_in.ct.kind = "enc"
           /\ last'.slab_in.ct.key
                  # get_or_insert_with(CellBefore, next_key).key) =>
              /\ last'.status = CDS_ERROR_INVALID_RATE_LIMIT_STATE
              /\ last'.slab_out = last'.slab_in
              /\ revealed' = revealed
       /\ (/\ last'.uuid = 0
           /\ last'.op \in {"delete_ratelimit_state",
                             "update_ratelimit_state"}) =>
              /\ last'.status = SGX_ERROR_INVALID_PARAMETER
              /\ RATELIMIT_STATE_MAP' = RATELIMIT_STATE_MAP
              /\ next_key' = next_key
              /\ revealed' = revealed
      ]_vars

\* the ciphertext revealed before the delete was presented to the emptied
\* cell: it was refused, under the state with the second key and nonce 1
C15_Witness ==
    /\ LastWasRlUpdate
    /\ last.status = CDS_ERROR_INVALID_RATE_LIMIT_STATE
    /\ last.slab_in.ct.kind = "enc"
    /\ last.slab_in.ct.key = 1
    /\ last.slab_in = stale[last.uuid]
    /\ CellOf(RATELIMIT_STATE_MAP, last.uuid) = RatelimitState_default(1)
    /\ Revealed(2) = 0

----------------------------------------------------------------------------
(* Claims on the arguments of handle_call and terminate (Spec)             *)

\* C16: a handle_call whose query_phone_count is 0 or above what is left of
\* the accumulator's capacity fails with SGX_ERROR_INVALID_PARAMETER,
\* whatever else is wrong with the query (it is not read or decrypted, so no
\* size, MAC or commitment error is returned), with or without a rate-limit
\* state; the accumulator, the queue and the rate-limit cells stay as they
\* were.
C16_CountChecked ==
    [][/\ last'.op = "handle_call"
       /\ \/ last'.count = 0
          \/ last'.count > capacity - Len(query_phones)
       => /\ last'.status = SGX_ERROR_INVALID_PARAMETER
          /\ query_phones' = query_phones
          /\ requests' = requests
          /\ RATELIMIT_STATE_MAP' = RATELIMIT_STATE_MAP
          /\ next_key' = next_key
          /\ revealed' = revealed
          /\ last'.slab_out = last'.slab_in]_vars

\* a rate-limited call of one phone was turned away by a full accumulator
\* that holds the phones of two parked requests
C16_Witness ==
    /\ last.op = "handle_call"
    /\ last.uuid # 0
    /\ last.count = 1
    /\ last.status = SGX_ERROR_INVALID_PARAMETER
    /\ Len(query_phones) = capacity
    /\ Len(requests) = 2
    /\ ratelimit_state_map
    /\ ~RATELIMIT_STATE_MAP.once \/ RATELIMIT_STATE_MAP.hash_map = <<>>

\* C17: terminate with an in_phone_count whose size in bytes, as phones or
\* as UUIDs, overflows usize fails with SGX_ERROR_INVALID_PARAMETER wherever
\* the two pointers point; hash_lookup is not invoked and no parked request
\* is replied to.
C17_CountOverflow ==
    [][/\ last'.op = "terminate"
       /\ last'.stop.present
       /\ \/ last'.stop.in_phone_count > USIZE_MAX \div BYTES_PER_PHONE
          \/ last'.stop.in_phone_count > USIZE_MAX \div BYTES_PER_UUID
       => /\ last'.status = SGX_ERROR_INVALID_PARAMETER
          /\ lookups' = <<>>
          /\ replies' = <<>>]_vars

\* a count that overflows as UUIDs only, with both pointers outside the
\* enclave and requests parked
C17_Witness ==
    /\ last.op = "terminate"
    /\ last.stop.in_phone_count > USIZE_MAX \div BYTES_PER_UUID
    /\ last.stop.in_phone_count <= USIZE_MAX \div BYTES_PER_PHONE
    /\ last.stop.in_phones_outside
    /\ last.stop.in_uuids_outside
    /\ last.status = SGX_ERROR_INVALID_PARAMETER
    /\ Len(requests) >= 2
    /\ replies = <<>>

\* C18: terminate fails with SGX_ERROR_INVALID_PARAMETER when the in_phones
\* range or the in_uuids range does not lie outside the enclave; in either
\* case hash_lookup is not invoked and no parked request is replied to.
C18_PointersChecked ==
    [][/\ last'.op = "terminate"
       /\ last'.stop.present
       /\ ~(last'.stop.in_phones_outside /\ last'.stop.in_uuids_outside)
       => /\ last'.status = SGX_ERROR_INVALID_PARAMETER
          /\ lookups' = <<>>
          /\ replies' = <<>>]_vars

\* in_uuids alone pointed into the enclave, the count was in range and
\* requests were parked
C18_Witness ==
    /\ last.op = "terminate"
    /\ last.stop.in_phones_outside
    /\ ~last.stop.in_uuids_outside
    /\ last.stop.in_phone_count = 1
    /\ last.status = SGX_ERROR_INVALID_PARAMETER
    /\ Len(requests) >= 2
    /\ lookups = <<>>

\* the least number of chunks of MAX_HASH_TABLE_SIZE phones that hold len
\* phones
ChunksNeeded(len) ==
    CHOOSE n \in 0..len :
        /\ n * MAX_HASH_TABLE_SIZE >= len
        /\ n = 0 \/ (n - 1) * MAX_HASH_TABLE_SIZE < len

\* C19: terminate with valid directory arguments on a server whose
\* accumulator is empty, whatever max_query_phones was, returns Ok without a
\* hash_lookup call and without a reply; on any accumulator it calls
\* hash_lookup once for each chunk of MAX_HASH_TABLE_SIZE phones, in order,
\* ceil(len / MAX_HASH_TABLE_SIZE) times in all, unless one of the calls
\* fails: that call is the last one, and no reply is sent.
C19_LookupsPerChunk ==
    [][last'.op = "terminate" /\ last'.stop.valid =>
          /\ query_phones = <<>> =>
                 /\ last'.status = SGX_SUCCESS
                 /\ lookups' = <<>>
                 /\ replies' = <<>>
          /\ last'.status # HASH_LOOKUP_ERROR =>
                 Len(lookups') = ChunksNeeded(Len(query_phones))
          /\ last'.status = HASH_LOOKUP_ERROR =>
                 /\ Len(lookups') \in 1..ChunksNeeded(Len(query_phones))
                 /\ replies' = <<>>
          /\ \A k \in 1..Len(lookups') :
                 /\ lookups'[k].in_phone_count = last'.stop.in_phone_count
                 /\ Len(lookups'[k].query_phones) \in 1..MAX_HASH_TABLE_SIZE
                 /\ \A i \in 1..Len(lookups'[k].query_phones) :
                        lookups'[k].query_phones[i]
                            = query_phones[(k - 1) * MAX_HASH_TABLE_SIZE + i]
      ]_vars

\* a server started with max_query_phones = 0 was terminated with a
\* directory of two entries
C19_Witness ==
    /\ last.op = "terminate"
    /\ last.stop.valid
    /\ last.stop.in_phone_count = 2
    /\ last.status = SGX_SUCCESS
    /\ capacity = 0
    /\ query_phones = <<>>
    /\ lookups = <<>>
    /\ replies = <<>>

----------------------------------------------------------------------------
(* C20 *)

\* the 20-digit zero-padded decimal form of a u64 of three limbs, limb by limb
PaddedDecimal(phone) ==
    ascii_digits(phone[1], 2) \o ascii_digits(phone[2], 9)
        \o ascii_digits(phone[3], 9)

\* the decimal form with no leading zeros (empty for 0)
RECURSIVE Decimal(_)
Decimal(data) ==
    IF data # <<>> /\ data[1] = 0 THEN Decimal(Tail(data)) ELSE data

Selected(evaluations) ==
    {i \in 1..Len(evaluations) : evaluations[i].choice}

\* C20: hash_query_phone runs exactly 20 SHA-1 evaluations, the i-th
\* (i = 0..19) over the last 20 - i digits of the 20-digit zero-padded
\* decimal form of phone; for phone # 0 exactly one of them is selected, the
\* one whose suffix starts at the first non-zero digit, phone is from then on
\* the first 8 bytes of SHA1("+" || decimal(phone)) and no later evaluation
\* overwrites it; for phone = 0 none is selected and phone is left unchanged.
\* The value returned is the one handle_call's hash_ascii_phone computes.
C20_HashQueryPhone ==
    hashing.pc # "idle" =>
        LET evaluations == hashing.evaluations
            n           == Len(evaluations)
            padded      == PaddedDecimal(hashing.input)
            decimal     == Decimal(padded)
            selected    == Selected(evaluations)
        IN  /\ n <= 20
            /\ hashing.pc = "done" => n = 20
            /\ \A i \in 0..(n - 1) :
                   evaluations[i + 1].data = SubSeq(padded, i + 1, 20)
            /\ Cardinality(selected) <= 1
            /\ \A i \in selected : evaluations[i].data = decimal
            /\ hashing.pc = "done" =>
                   (selected # {} <=> hashing.input # <<0, 0, 0>>)
            /\ IF selected = {}
               THEN hashing.phone = hashing.input
               ELSE hashing.phone = SHA1_prefix(decimal)
            /\ hashing.pc = "done" =>
                   hashing.phone = hash_ascii_phone(hashing.input, padded, TRUE)

\* the call on u64::MAX has returned, its first evaluation was the selected
\* one and nineteen more followed it
C20_Witness ==
    /\ hashing.pc = "done"
    /\ hashing.input = U64_MAX
    /\ Selected(hashing.evaluations) = {1}
    /\ Len(hashing.evaluations) = 20
    /\ hashing.phone = SHA1_prefix(PaddedDecimal(U64_MAX))

----------------------------------------------------------------------------
(* Claims on an instance without rate limiting (SpecRL)                     *)

\* a handle_call step with a rate-limit UUID, on an instance initialised
\* with max_ratelimit_states = 0, whose request passes decode_request
DisabledCall ==
    /\ last'.op = "handle_call"
    /\ last'.uuid # 0
    /\ ~ratelimit_state_map
    /\ decode_request(GoodArgs(last'.phones, last'.uuid, last'.slab_in),
                      Len(query_phones), capacity) = SGX_SUCCESS

\* the call left the process-wide map, its cells, the keys drawn, the
\* accumulator, the queue and the caller's state as they were
DisabledCallEffect ==
    /\ RATELIMIT_STATE_MAP' = RATELIMIT_STATE_MAP
    /\ next_key' = next_key
    /\ revealed' = revealed
    /\ last'.slab_out = last'.slab_in
    /\ query_phones' = query_phones
    /\ requests' = requests

\* C21 as stated: on an instance initialised with max_ratelimit_states = 0,
\* every handle_call with a non-zero rate-limit UUID that passes request
\* decoding fails with SGX_ERROR_INVALID_STATE and neither creates nor
\* modifies a cell of the process-wide map.
C21_DisabledAlwaysInvalidState ==
    [][DisabledCall =>
           /\ last'.status = SGX_ERROR_INVALID_STATE
           /\ DisabledCallEffect]_vars

\* C21 (amended): such a call fails, with
\* CDS_ERROR_INVALID_RATE_LIMIT_STATE when the state it carries is shorter
\* than the 16-byte MAC and with SGX_ERROR_INVALID_STATE otherwise, and in
\* both cases it neither initialises the process-wide map nor creates or
\* modifies a cell of it, whether or not the map has been initialised and
\* holds the UUID's cell.
C21_DisabledInstanceFails ==
    [][DisabledCall =>
           /\ last'.status =
                  IF last'.slab_in.size < AES_GCM_MAC_LEN
                  THEN CDS_ERROR_INVALID_RATE_LIMIT_STATE
                  ELSE SGX_ERROR_INVALID_STATE
           /\ DisabledCallEffect]_vars

\* an instance without rate limiting has refused the ciphertext that the
\* UUID's cell, made through the free function, stands by
C21_Witness ==
    /\ ~ratelimit_state_map
    /\ last.op = "handle_call"
    /\ last.uuid = 1
    /\ last.status = SGX_ERROR_INVALID_STATE
    /\ RATELIMIT_STATE_MAP.once
    /\ CellOf(RATELIMIT_STATE_MAP, 1).some
    /\ last.slab_in = current[1]
    /\ last.slab_in.ct.kind = "enc"

----------------------------------------------------------------------------
(* Claims on the size limit of a fresh state (SpecLimit)                    *)

\* the effective slot count of a plaintext of len bytes, as the
\* specification gives it
EffectiveSlots(len) == ((((len - SIZE_LIMIT_DATA_LEN) \div 8) * 3) \div 4)

\* an update that reaches RatelimitState::update, with RdRand delivering
ReachesUpdate ==
    /\ RlStep
    /\ ReachesCell
    /\ last'.rand >= 0

----------------------------------------------------------------------------
(* Claims on the errors of terminate (Spec)                                 *)

\* C23: terminate stops at its first error.  Replies are sent only after
\* every chunk has been looked up, so a failing hash_lookup ends terminate
\* with that error and without a reply; when the reply to the i-th parked
\* request fails, the requests before it have received their replies, in
\* order, terminate returns that error, and no request after the i-th is
\* replied to.
C23_TerminateShortCircuits ==
    [][last'.op = "terminate" /\ last'.stop.valid =>
          /\ last'.status \in {SGX_SUCCESS, HASH_LOOKUP_ERROR, REPLY_ERROR}
          /\ last'.status = HASH_LOOKUP_ERROR => replies' = <<>>
          /\ replies' # <<>> =>
                 Len(lookups') = ChunksNeeded(Len(query_phones))
          /\ Len(replies') <= Len(requests)
          /\ \A j \in 1..Len(replies') :
                 /\ replies'[j].to = requests[j].from
                 /\ ~replies'[j].ok =>
                        /\ j = Len(replies')
                        /\ last'.status = REPLY_ERROR
          /\ last'.status = REPLY_ERROR =>
                 /\ replies' # <<>>
                 /\ ~replies'[Len(replies')].ok
          /\ last'.status = SGX_SUCCESS =>
                 Len(replies') = Len(requests)
      ]_vars

\* the reply to the second of three parked requests failed: the first has
\* its reply and the third has none
C23_Witness ==
    /\ last.op = "terminate"
    /\ last.status = REPLY_ERROR
    /\ Len(requests) >= 3
    /\ Len(replies) = 2
    /\ replies[1].ok
    /\ ~replies[2].ok

----------------------------------------------------------------------------
(* Claims on the locks (SpecLocks)                                          *)

CellsHeld(t) == {u \in Uuids : cell_lock[u] = t}

\* thread t waits for hash_map's lock, or for the mutex of its cell
WaitsForMap(t) == pc[t] = "get"
WaitsForCell(t) == pc[t] = "lock"

\* no thread takes hash_map's lock or a second cell mutex while it holds a
\* cell mutex, and none waits for a cell mutex with hash_map's lock in hand
LockDiscipline ==
    \A t \in 1..MaxThreads :
        /\ Cardinality(CellsHeld(t)) <= 1
        /\ CellsHeld(t) # {} =>
               /\ pc[t] \in {"open", "clear"}
               /\ CellsHeld(t) = {loc[t].uuid}
               /\ map_lock # t
        /\ WaitsForCell(t) => map_lock # t
        /\ map_lock = t <=> pc[t] = "insert"

\* while an operation is under way, some thread inside one can take a step
NoDeadlock ==
    (\E t \in 1..MaxThreads : pc[t] # "idle") =>
        \E t \in 1..MaxThreads : pc[t] # "idle" /\ ENABLED Running(t)

\* the lock thread t waits for is in the hands of another thread
HeldByAnother(t) ==
    \/ WaitsForMap(t) /\ map_lock # 0
    \/ WaitsForCell(t) /\ cell_lock[loc[t].uuid] # 0

\* C24 as stated: the lock discipline holds, no deadlock is reachable, and
\* every operation that asks for a lock acquires it in the end, given that
\* the threads keep running.
C24_EveryRequestAcquires ==
    /\ []LockDiscipline
    /\ []NoDeadlock
    /\ \A t \in 1..MaxThreads :
           (WaitsForMap(t) \/ WaitsForCell(t))
               ~> ~(WaitsForMap(t) \/ WaitsForCell(t))

\* C24 (amended): the lock discipline holds and no deadlock is reachable;
\* every lock that is held is released, and an operation that asks for a
\* lock acquires it unless other threads take that lock again and again:
\* the spin locks promise no turn to a waiting thread.
C24_LocksReleased ==
    /\ []LockDiscipline
    /\ []NoDeadlock
    /\ \A t \in 1..MaxThreads :
           /\ HeldByAnother(t) ~> ~HeldByAnother(t)
           /\ \/ []<>(~(WaitsForMap(t) \/ WaitsForCell(t)))
              \/ []<>HeldByAnother(t)

\* a thread waits for the mutex of a cell that another thread holds, while
\* a third operation is inside RatelimitStateMap::get
C24_Witness ==
    \E t, h \in 1..MaxThreads :
        /\ WaitsForCell(t)
        /\ cell_lock[loc[t].uuid] = h
        /\ h # t
        /\ pc[h] \in {"open", "clear"}

----------------------------------------------------------------------------
(* Requests racing for one cell: every thread serves a server instance, and *)
(* each handle_call presents an all-zero state or the ciphertext the cell   *)
(* stands by when the request starts.  The outcomes of the requests that    *)
(* presented a ciphertext are kept.                                         *)

\* the phones of a request: one phone for a first use, the same or another
\* one with a ciphertext (the second entry reaches the size limit)
RacePhoneLists(slab) == IF all_zero(slab.ct) THEN {<<1>>} ELSE {<<1>>, <<2>>}

InitRace == InitKeeping(init(MaxCapacity, 1), FALSE, TRUE)

NextRace ==
    \E t \in 1..MaxThreads :
        \/ \E slab \in ConcSlabs("handle_call", 1) :
               \E phones \in RacePhoneLists(slab) :
                   Call(t, "handle_call", 1, slab, phones)
        \/ MapInsert(t)
        \/ Lock(t)
        \/ Open(t)
        \/ Inc(t)
        \/ Encrypt(t)

SpecRace == InitRace /\ [][NextRace]_vars

----------------------------------------------------------------------------
(* Claims on the growth of the rate-limit set (SpecFresh)                   *)

\* a successful update of a cell that has revealed a state under the key it
\* still has: no delete came between the two
SuccessorUpdate ==
    /\ RlStep
    /\ last'.status = SGX_SUCCESS
    /\ LastRevealed(last'.uuid) # NoSlab
    /\ LastRevealed(last'.uuid).ct.key = last'.slab_out.ct.key

\* C25 as stated: between two deletes of a UUID the plaintext revealed by a
\* successful update holds no fewer distinct entries than the plaintext
\* revealed by the successful update before it, and the same size limit,
\* whatever state the caller presents.
C25_SetAppendOnly ==
    [][SuccessorUpdate =>
           LET pt   == last'.slab_out.ct.pt
               prev == LastRevealed(last'.uuid).ct.pt
           IN  /\ Cardinality(pt.slots) >= Cardinality(prev.slots)
               /\ pt.size_limit = prev.size_limit]_vars

\* C25 (amended): a successful update that presents a ciphertext presents
\* the one revealed last, and reveals its entries with the phones of the
\* call added, under its size limit; a successful update that presents an
\* all-zero state starts over, whatever the nonce of the cell: it reveals
\* the phones of the call alone, under a size limit drawn anew.  Either way
\* the entries stay below the size limit.
C25_SetGrowsOrStartsOver ==
    [][RlStep /\ last'.status = SGX_SUCCESS =>
           LET pt   == last'.slab_out.ct.pt
               len  == last'.slab_in.size - AES_GCM_MAC_LEN
               half == slot_count(len) \div 2
           IN  /\ Cardinality(pt.slots) < pt.size_limit
               /\ IF all_zero(last'.slab_in.ct)
                  THEN /\ pt.slots = PhonesAdded
                       /\ pt.size_limit = half + rem_assign(last'.rand, half)
                  ELSE /\ last'.slab_in = LastRevealed(last'.uuid)
                       /\ last'.slab_in.ct.key = last'.slab_out.ct.key
                       /\ pt.slots = last'.slab_in.ct.pt.slots \cup PhonesAdded
                       /\ pt.size_limit = last'.slab_in.ct.pt.size_limit]_vars

\* an all-zero state was accepted by a cell past its first use: the state
\* revealed holds fewer entries than the one revealed before it under the
\* same key, and another size limit
C25_Witness ==
    /\ last.op = "update_ratelimit_state"
    /\ last.status = SGX_SUCCESS
    /\ all_zero(last.slab_in.ct)
    /\ stale[1] # NoSlab
    /\ stale[1].ct.key = last.slab_out.ct.key
    /\ IvNonce(last.slab_out.ct.iv) > 2
    /\ Cardinality(last.slab_out.ct.pt.slots)
           < Cardinality(stale[1].ct.pt.slots)
    /\ last.slab_out.ct.pt.size_limit # stale[1].ct.pt.size_limit

----------------------------------------------------------------------------
(* Claims on requests racing from one ciphertext (SpecRace)                 *)

\* the requests that presented the ciphertext of outcome o to its UUID and
\* returned with status
ReturnedWith(o, status) ==
    CopiesIn([o EXCEPT !.status = status], outcomes.returned)

====
